---- MODULE Spec2Model ----
(***************************************************************************)
(* Model of the pdf-form-ocr-service detection pipeline:                   *)
(*   - the raster line scanner (detectHorizontalLines in lineDetector.js,  *)
(*     detectHorizontalLinesInRegion in the region variant) with its       *)
(*     thickness estimator (measureLineThickness);                         *)
(*   - the segment filters and density classifiers;                        *)
(*   - the coordinate mapper;                                              *)
(*   - the /process-ocr handler of index.js (targeted pass, supplemental   *)
(*     pass, field numbering), alone and with a second request in the    *)
(*     process;                                                            *)
(*   - the text-layer variants of the repository (part_001, part_002).     *)
(* Pixel buffers are binarized: a pixel is ink or not.  A buffer is given  *)
(* by its width, its height and the set of ink rectangles drawn on it.     *)
(***************************************************************************)
EXTENDS Integers, Sequences, FiniteSets, TLC

VARIABLES
    pc,         \* position of the operation under way
    image,      \* the binarized buffer (or the dimensions) the operation works on
    options,    \* the options of the operation: variant, minLength, maxThickness
    lines,      \* the raw segments the raster scan produced
    result,     \* what the segment filter computed, stage by stage
    point,      \* the point the coordinate mapper converts
    trips,      \* conversions applied to the point so far
    request,    \* the /process-ocr request: pdf_url, extract_elements, the document
    images,     \* the rasterized pages (convertPDFToImages)
    targetRegions,          \* analyzeTextElements(extract_elements).all
    scannedAreas,           \* the crop rectangles of the targeted pass
    fillableAreas,          \* the detected areas, in output order
    fieldIndex,             \* the next field id
    targetedLinesCount,     \* segments found by the targeted pass
    supplementalLinesCount, \* segments kept by the supplemental pass
    regionIndex,            \* position of the targeted loop
    pageIndex,              \* position of the supplemental loop
    filteredLines,          \* the segments the supplemental filter kept on pageIndex
    response,               \* the response sent, if any
    suspended               \* the frame of a second handler waiting at an await

coreVars == <<image, options, result, point, trips>>
handlerVars == <<request, images, targetRegions, scannedAreas, fillableAreas, fieldIndex,
                 targetedLinesCount, supplementalLinesCount, regionIndex, pageIndex,
                 filteredLines, response>>
vars == <<pc, lines, coreVars, handlerVars, suspended>>

\* a variable an operation does not use
Unused == "unused"

\* no request is being handled
NoRequest ==
    /\ request = Unused /\ images = <<>> /\ targetRegions = <<>> /\ scannedAreas = <<>>
    /\ fillableAreas = <<>> /\ fieldIndex = 1 /\ targetedLinesCount = 0
    /\ supplementalLinesCount = 0 /\ regionIndex = 1 /\ pageIndex = 0
    /\ filteredLines = <<>> /\ response = Unused
    /\ suspended = Unused

Min(a, b) == IF a < b THEN a ELSE b
Max(a, b) == IF a > b THEN a ELSE b
abs(a) == IF a < 0 THEN -a ELSE a

\* lineStart = null
Null == -1

(***************************************************************************)
(* The raster scan                                                         *)
(***************************************************************************)

\* const maxGap = 5 in detectHorizontalLines, 3 in detectHorizontalLinesInRegion
maxGapPage == 5
maxGapRegion == 3
\* Math.min(10, length) sample columns on the page, Math.min(5, length) in a region
samplePointsPage == 10
samplePointsRegion == 5
\* blackPixelCount / samplePoints > 0.7 on the page, > 0.6 in a region (in tenths)
inkRatioPage == 7
inkRatioRegion == 6
\* for (let dy = 1; dy < 10; dy++)
thicknessRows == 10
\* options.maxThickness || 3
defaultMaxThickness == 3
\* options.minLength || 30 (page), minLength: 15 (targeted crop), minLength: 40 (whole page)
defaultMinLength == 30
targetedMinLength == 15
supplementalMinLength == 40

scanPage == [maxGap |-> maxGapPage, samples |-> samplePointsPage, ratio |-> inkRatioPage]
scanRegion == [maxGap |-> maxGapRegion, samples |-> samplePointsRegion, ratio |-> inkRatioRegion]

\* const isBlack = pixelValue < 50, on the thresholded buffer
isBlack(data, x, y) ==
    \E r \in data.ink :
        /\ x >= r.x /\ x < r.x + r.len
        /\ y >= r.y /\ y < r.y + r.t

\* one row of the thickness estimator: the sampled columns of row checkY that are ink
blackPixelCount(data, v, startX, checkY, length) ==
    LET samplePoints == Min(v.samples, length)
    IN  Cardinality({i \in 0..(samplePoints - 1) :
            LET checkX == startX + ((length * i) \div samplePoints)
            IN  checkX < data.width /\ isBlack(data, checkX, checkY)})

RECURSIVE thicknessFrom(_, _, _, _, _, _, _)
thicknessFrom(data, v, startX, startY, length, dy, thickness) ==
    IF dy >= thicknessRows \/ startY + dy >= data.height
    THEN thickness
    ELSE IF 10 * blackPixelCount(data, v, startX, startY + dy, length)
                > v.ratio * Min(v.samples, length)
         THEN thicknessFrom(data, v, startX, startY, length, dy + 1, thickness + 1)
         ELSE thickness

measureLineThickness(data, v, startX, startY, length) ==
    thicknessFrom(data, v, startX, startY, length, 1, 1)

\* the object pushed on lines; (ox, oy) is the origin the variant adds
Segment(ox, oy, lineStart, lineLength, y, thickness) ==
    [startX |-> ox + lineStart, endX |-> ox + lineStart + lineLength,
     y |-> oy + y, length |-> lineLength, thickness |-> thickness]

\* a scanner that bridges one blank pixel more than maxGap
gapTooWideOffByOne(gapCount, maxGap) == gapCount > maxGap + 1

\* if (gapCount > maxGap)
gapTooWide(gapCount, maxGap) == gapCount > maxGap

\* the rows y .. min(y + thickness, height) - 1 added to processedRows
consumedRows(y, thickness, height) == y .. (Min(y + thickness, height) - 1)

\* a run closed by a gap wider than maxGap: emitted when long and thin enough,
\* and its rows are marked processed; the run state is reset either way
closeRun(data, o, v, y, st) ==
    LET thickness == measureLineThickness(data, v, st.lineStart, y, st.lineLength)
        emit == st.lineLength >= o.minLength /\ thickness <= o.maxThickness
    IN  [lineStart |-> Null, lineLength |-> 0, gapCount |-> 0,
         lines |-> IF emit
                   THEN Append(st.lines,
                               Segment(o.ox, o.oy, st.lineStart, st.lineLength, y, thickness))
                   ELSE st.lines,
         processedRows |-> IF emit
                           THEN st.processedRows \cup consumedRows(y, thickness, data.height)
                           ELSE st.processedRows]

\* the body of the inner loop, for one pixel
pixelStep(data, o, v, y, x, st) ==
    IF isBlack(data, x, y)
    THEN [st EXCEPT !.lineStart = IF @ = Null THEN x ELSE @,
                    !.lineLength = @ + 1,
                    !.gapCount = 0]
    ELSE IF st.lineLength > 0
         THEN IF gapTooWide(st.gapCount + 1, v.maxGap)
              THEN closeRun(data, o, v, y, st)
              ELSE [st EXCEPT !.gapCount = @ + 1, !.lineLength = @ + 1]
         ELSE st

\* for (let x = 0; x < width; x++).  lineLength is never negative: the second
\* test only makes the run state be evaluated column by column.
RECURSIVE sweepRow(_, _, _, _, _, _)
sweepRow(data, o, v, y, x, st) ==
    IF x >= data.width \/ st.lineLength < 0
    THEN st
    ELSE sweepRow(data, o, v, y, x + 1, pixelStep(data, o, v, y, x, st))

\* the run still open after the last column of the row
endOfRow(data, o, v, y, st) ==
    IF st.lineLength >= o.minLength
    THEN LET thickness == measureLineThickness(data, v, st.lineStart, y, st.lineLength)
         IN  IF thickness <= o.maxThickness
             THEN [st EXCEPT !.lines =
                      Append(@, Segment(o.ox, o.oy, st.lineStart, st.lineLength, y, thickness))]
             ELSE st
    ELSE st

RECURSIVE scanRows(_, _, _, _, _, _)
scanRows(data, o, v, y, found, processedRows) ==
    IF y >= data.height
    THEN found
    ELSE IF y \in processedRows
         THEN scanRows(data, o, v, y + 1, found, processedRows)
         ELSE LET st0 == [lineStart |-> Null, lineLength |-> 0, gapCount |-> 0,
                          lines |-> found, processedRows |-> processedRows]
                  st1 == endOfRow(data, o, v, y, sweepRow(data, o, v, y, 0, st0))
              IN  scanRows(data, o, v, y + 1, st1.lines, st1.processedRows)

\* step 2 of detectHorizontalLines: the raw lines of the whole buffer
rasterScan(data, minLength, maxThickness) ==
    scanRows(data, [minLength |-> minLength, maxThickness |-> maxThickness,
                    ox |-> 0, oy |-> 0], scanPage, 0, <<>>, {})

\* sharp(...).extract({left, top, width, height}): the cropped buffer
extract(data, left, top, w, h) ==
    [width |-> w, height |-> h,
     ink |-> {[x |-> r.x - left, y |-> r.y - top, len |-> r.len, t |-> r.t] : r \in data.ink}]

\* extract rejects an area that is empty or not inside the image
badExtract(data, left, top, w, h) ==
    \/ w <= 0 \/ h <= 0 \/ left < 0 \/ top < 0
    \/ left + w > data.width \/ top + h > data.height

\* detectHorizontalLinesInRegion: the crop [x1, y1, x2, y2] is scanned and the
\* segments are returned with x1 and y1 added
detectHorizontalLinesInRegion(data, x1, y1, x2, y2, minLength, maxThickness) ==
    scanRows(extract(data, x1, y1, x2 - x1, y2 - y1),
             [minLength |-> minLength, maxThickness |-> maxThickness,
              ox |-> x1, oy |-> y1], scanRegion, 0, <<>>, {})

(***************************************************************************)
(* Scanner inputs: a row of one or two ink runs on an otherwise blank      *)
(* buffer.  The buffer is as wide as the runs, the gap between them and    *)
(* the blank columns before and after need.                                *)
(***************************************************************************)
MaxLead == 1
ImgH == 4
MaxRule == 4

minLengths(variant) == IF variant = "page" THEN {defaultMinLength} ELSE {targetedMinLength}
variantOf(variant) == IF variant = "page" THEN scanPage ELSE scanRegion

runLengths(m) == {m - 1, m, m + 1}
gapWidths(v) == {1, v.maxGap, v.maxGap + 1}
tailWidths(v) == {0, 1, v.maxGap, v.maxGap + 1}

\* a buffer with run A alone (gap = 0) or runs A and B on the same top row
rowImage(lead, lenA, gap, lenB, tail, y, tA, tB) ==
    [width |-> lead + lenA + (IF gap = 0 THEN 0 ELSE gap + lenB) + tail,
     height |-> ImgH,
     ink |-> {[x |-> lead, y |-> y, len |-> lenA, t |-> tA]}
             \cup (IF gap = 0 THEN {}
                   ELSE {[x |-> lead + lenA + gap, y |-> y, len |-> lenB, t |-> tB]}),
     lead |-> lead, lenA |-> lenA, gap |-> gap, lenB |-> lenB, tail |-> tail,
     y |-> y, tA |-> tA, tB |-> tB]

InitScan ==
    /\ pc = "idle"
    /\ lines = <<>>
    /\ result = Unused /\ point = Unused /\ trips = 0
    /\ NoRequest
    /\ \E variant \in {"page", "region"} :
       \E m \in minLengths(variant) :
          /\ options = [variant |-> variant, minLength |-> m,
                        maxThickness |-> defaultMaxThickness]
          /\ \E lead \in 0..MaxLead, lenA \in runLengths(m),
                tail \in tailWidths(variantOf(variant)),
                y \in 0..(ImgH - 1), tA \in 1..MaxRule :
                /\ y + tA <= ImgH
                /\ \/ image = rowImage(lead, lenA, 0, 0, tail, y, tA, tA)
                   \/ \E gap \in gapWidths(variantOf(variant)), lenB \in runLengths(m),
                         tB \in {1, tA} :
                         image = rowImage(lead, lenA, gap, lenB, tail, y, tA, tB)

\* detectHorizontalLines, step 2, on the whole buffer
ScanPage ==
    /\ pc = "idle"
    /\ options.variant = "page"
    /\ lines' = rasterScan(image, options.minLength, options.maxThickness)
    /\ pc' = "scanned"
    /\ UNCHANGED <<suspended, image, options, result, point, trips, handlerVars>>

\* detectHorizontalLinesInRegion on the region covering the whole buffer
ScanRegion ==
    /\ pc = "idle"
    /\ options.variant = "region"
    /\ lines' = detectHorizontalLinesInRegion(image, 0, 0, image.width, image.height,
                                              options.minLength, options.maxThickness)
    /\ pc' = "scanned"
    /\ UNCHANGED <<suspended, image, options, result, point, trips, handlerVars>>

NextScan == ScanPage \/ ScanRegion

SpecScan == InitScan /\ [][NextScan]_vars

\* a buffer with two thin rules in separate column ranges, each on its own rows
staggerImage(lead, lenA, gap, lenB, tail, yA, tA, yB, tB) ==
    [width |-> lead + lenA + gap + lenB + tail,
     height |-> ImgH,
     ink |-> {[x |-> lead, y |-> yA, len |-> lenA, t |-> tA],
              [x |-> lead + lenA + gap, y |-> yB, len |-> lenB, t |-> tB]},
     ruleA |-> [x |-> lead, y |-> yA, len |-> lenA, t |-> tA],
     ruleB |-> [x |-> lead + lenA + gap, y |-> yB, len |-> lenB, t |-> tB]]

InitStagger ==
    /\ pc = "idle"
    /\ lines = <<>>
    /\ result = Unused /\ point = Unused /\ trips = 0
    /\ NoRequest
    /\ \E variant \in {"page", "region"} :
       \E m \in minLengths(variant) :
          /\ options = [variant |-> variant, minLength |-> m,
                        maxThickness |-> defaultMaxThickness]
          /\ \E lead \in 0..MaxLead, lenA \in {m, m + 1}, lenB \in {m, m + 1},
                gap \in {variantOf(variant).maxGap + 1, variantOf(variant).maxGap + 2},
                tail \in {0, 1},
                yA \in 0..(ImgH - 1), yB \in 0..(ImgH - 1), tA \in 1..2, tB \in 1..2 :
                /\ yA + tA <= ImgH
                /\ yB + tB <= ImgH
                /\ image = staggerImage(lead, lenA, gap, lenB, tail, yA, tA, yB, tB)

SpecStagger == InitStagger /\ [][NextScan]_vars

(***************************************************************************)
(* The thickness estimator on its own                                      *)
(***************************************************************************)
\* the pixels measureLineThickness reads: the samples of the rows it examines,
\* which are the counted rows and the row that stops the count
samplesRead(data, v, startX, startY, length) ==
    LET thickness == measureLineThickness(data, v, startX, startY, length)
        lastRow == Min(Min(thickness, thicknessRows - 1), data.height - 1 - startY)
        samplePoints == Min(v.samples, length)
    IN  {[x |-> startX + ((length * i) \div samplePoints), y |-> startY + dy] :
            i \in 0..(samplePoints - 1), dy \in 1..lastRow}
        \ {px \in [x : 0..(startX + length), y : 0..(startY + lastRow)] :
              px.x >= data.width}

bufferHeights == {1, 2, 4, 12}
measuredLengths == {3, 15, 30}

\* a run of the given length on row 0, full rows of ink beneath it, then one
\* row with ink over the first part columns of the run, then blank rows
blockImage(startX, length, tail, height, full, part) ==
    [width |-> startX + length + tail,
     height |-> height,
     ink |-> {[x |-> startX, y |-> 0, len |-> length, t |-> 1 + full]}
             \cup (IF part = 0 THEN {}
                   ELSE {[x |-> startX, y |-> 1 + full, len |-> part, t |-> 1]}),
     full |-> full, part |-> part]

InitThickness ==
    /\ pc = "run"
    /\ lines = <<>>
    /\ result = Unused /\ trips = 0
    /\ NoRequest
    /\ \E variant \in {"page", "region"} :
          options = [variant |-> variant, minLength |-> defaultMinLength,
                     maxThickness |-> defaultMaxThickness]
    /\ \E startX \in 0..MaxLead, length \in measuredLengths, tail \in {0, 1},
          height \in bufferHeights :
          \E full \in 0..(height - 1), part \in 0..length :
             /\ (part > 0 => 1 + full < height)
             /\ image = blockImage(startX, length, tail, height, full, part)
             /\ point = [startX |-> startX, startY |-> 0, length |-> length]

\* measureLineThickness of lineDetector.js (10 samples, 0.7)
MeasurePage ==
    /\ pc = "run"
    /\ options.variant = "page"
    /\ result' = [thickness |-> measureLineThickness(image, scanPage, point.startX,
                                                     point.startY, point.length),
                  reads |-> samplesRead(image, scanPage, point.startX, point.startY,
                                        point.length)]
    /\ pc' = "measured"
    /\ UNCHANGED <<suspended, lines, image, options, point, trips, handlerVars>>

\* measureLineThickness of the region scanner (5 samples, 0.6)
MeasureRegion ==
    /\ pc = "run"
    /\ options.variant = "region"
    /\ result' = [thickness |-> measureLineThickness(image, scanRegion, point.startX,
                                                     point.startY, point.length),
                  reads |-> samplesRead(image, scanRegion, point.startX, point.startY,
                                        point.length)]
    /\ pc' = "measured"
    /\ UNCHANGED <<suspended, lines, image, options, point, trips, handlerVars>>

NextThickness == MeasurePage \/ MeasureRegion

SpecThickness == InitThickness /\ [][NextThickness]_vars

(***************************************************************************)
(* The segment filters (filterLinesIntelligent of lineDetector.js and      *)
(* filterLinesBalanced of the balanced variant) and their density          *)
(* classifiers.  A fraction of the page size is compared exactly:          *)
(* line.y < imageHeight * 0.15 is 100 * y < 15 * imageHeight.  A band is   *)
(* kept in bin units: startY = startBin * binHeight, endY = endBin *       *)
(* binHeight, with binHeight = imageHeight / numBins.                      *)
(***************************************************************************)
\* const numBins = 20; the loop looks at Math.min(5, numBins) bins
numBins == 20
topBins == 5
\* detectLogoRegion: if (maxDensity > 10), endY: (maxBinIndex + 2) * binHeight
logoDensity == 10
logoBins == 2
\* findDenseRegions: const threshold = 8; filterLinesBalanced: region.density > 15
denseThreshold == 8
removalDensity == 15
\* const minYDistance = 25 (intelligent), 15 (balanced); let lastY = -1000
minYDistanceIntelligent == 25
minYDistanceBalanced == 15
firstLastY == -1000
\* line.length < 60 (intelligent), < 40 (balanced)
minKeptLengthIntelligent == 60
minKeptLengthBalanced == 40

\* Math.floor(line.y / binHeight)
binIndex(y, imageHeight) == (numBins * y) \div imageHeight

\* the bins array: the number of lines of each bin
countBins(ls, imageHeight) ==
    [k \in 0..(numBins - 1) |->
        Cardinality({i \in 1..Len(ls) : binIndex(ls[i].y, imageHeight) = k})]

\* y < startY, y > endY for a band boundary given in bin units
below(y, bin, imageHeight) == numBins * y < bin * imageHeight
above(y, bin, imageHeight) == numBins * y > bin * imageHeight
inBand(y, band, imageHeight) ==
    ~below(y, band.startBin, imageHeight) /\ ~above(y, band.endBin, imageHeight)

\* the loop that finds the densest of the first bins
RECURSIVE densestBin(_, _, _, _)
densestBin(bins, i, maxDensity, maxBinIndex) ==
    IF i >= Min(topBins, numBins)
    THEN [maxDensity |-> maxDensity, maxBinIndex |-> maxBinIndex]
    ELSE IF bins[i] > maxDensity
         THEN densestBin(bins, i + 1, bins[i], i)
         ELSE densestBin(bins, i + 1, maxDensity, maxBinIndex)

\* detectLogoRegion: no band (null) or one band of two bins
detectLogoRegion(ls, imageHeight) ==
    LET m == densestBin(countBins(ls, imageHeight), 0, 0, -1)
    IN  IF m.maxDensity > logoDensity
        THEN <<[startBin |-> m.maxBinIndex, endBin |-> m.maxBinIndex + logoBins,
                density |-> m.maxDensity]>>
        ELSE <<>>

\* while (endBin < densityMap.length - 1 && densityMap[endBin + 1].density >= threshold / 2)
RECURSIVE lastDenseBin(_, _)
lastDenseBin(bins, endBin) ==
    IF endBin < numBins - 1 /\ 2 * bins[endBin + 1] >= denseThreshold
    THEN lastDenseBin(bins, endBin + 1)
    ELSE endBin

\* findDenseRegions on the density map of calculateLineDensity
RECURSIVE denseRegionsFrom(_, _, _)
denseRegionsFrom(bins, i, regions) ==
    IF i >= Min(topBins, numBins)
    THEN regions
    ELSE IF bins[i] >= denseThreshold
         THEN LET endBin == lastDenseBin(bins, i)
              IN  denseRegionsFrom(bins, endBin + 1,
                      Append(regions, [startBin |-> i, endBin |-> endBin + 1,
                                       density |-> bins[i]]))
         ELSE denseRegionsFrom(bins, i + 1, regions)

findDenseRegions(ls, imageHeight) == denseRegionsFrom(countBins(ls, imageHeight), 0, <<>>)

\* filtered.sort((a, b) => a.y - b.y): a stable sort by y
insertByY(sorted, line) ==
    LET k == Cardinality({i \in 1..Len(sorted) : sorted[i].y <= line.y})
    IN  SubSeq(sorted, 1, k) \o <<line>> \o SubSeq(sorted, k + 1, Len(sorted))

RECURSIVE sortByY(_)
sortByY(ls) ==
    IF ls = <<>> THEN <<>>
    ELSE insertByY(sortByY(SubSeq(ls, 1, Len(ls) - 1)), ls[Len(ls)])

\* a deduplicator that also keeps a line exactly minYDistance away
farEnoughOrEqual(y, lastY, minYDistance) == abs(y - lastY) >= minYDistance

\* if (Math.abs(line.y - lastY) > minYDistance)
farEnough(y, lastY, minYDistance) == abs(y - lastY) > minYDistance

\* step 3: keep a line when it is far enough from the last line kept
RECURSIVE dedupFrom(_, _, _, _, _)
dedupFrom(sorted, i, lastY, deduplicated, minYDistance) ==
    IF i > Len(sorted)
    THEN deduplicated
    ELSE IF farEnough(sorted[i].y, lastY, minYDistance)
         THEN dedupFrom(sorted, i + 1, sorted[i].y, Append(deduplicated, sorted[i]),
                        minYDistance)
         ELSE dedupFrom(sorted, i + 1, lastY, deduplicated, minYDistance)

deduplicate(ls, minYDistance) == dedupFrom(sortByY(ls), 1, firstLastY, <<>>, minYDistance)

RECURSIVE sumLengths(_)
sumLengths(ls) == IF ls = <<>> THEN 0 ELSE ls[1].length + sumLengths(Tail(ls))

\* the lengths in ascending order, as a sequence
RECURSIVE sortedLengths(_)
sortedLengths(ls) ==
    IF ls = <<>> THEN <<>>
    ELSE LET rest == sortedLengths(SubSeq(ls, 1, Len(ls) - 1))
             v == ls[Len(ls)].length
             k == Cardinality({i \in 1..Len(rest) : rest[i] <= v})
         IN  SubSeq(rest, 1, k) \o <<v>> \o SubSeq(rest, k + 1, Len(rest))

\* filterLinesIntelligent, with the list after each step
filterLinesIntelligent(ls, imageWidth, imageHeight) ==
    LET basic == SelectSeq(ls, LAMBDA line :
                    /\ line.length >= minKeptLengthIntelligent
                    /\ ~(10 * line.length > 8 * imageWidth)
                    /\ ~(100 * line.y < 15 * imageHeight)
                    /\ ~(100 * line.y > 95 * imageHeight)
                    /\ ~(10 * line.startX < imageWidth)
                    /\ ~(10 * line.startX > 9 * imageWidth))
        bands == detectLogoRegion(basic, imageHeight)
        afterLogo == IF bands = <<>> THEN basic
                     ELSE SelectSeq(basic, LAMBDA line :
                              \/ below(line.y, bands[1].startBin, imageHeight)
                              \/ above(line.y, bands[1].endBin, imageHeight))
        deduplicated == deduplicate(afterLogo, minYDistanceIntelligent)
        \* avgLength is NaN for an empty list: NaN.toFixed does not throw, and the filter
        \* of an empty list is empty
        final == SelectSeq(deduplicated, LAMBDA line :
                    10 * Len(deduplicated) * line.length >= 4 * sumLengths(deduplicated))
    IN  [basic |-> basic, bins |-> countBins(basic, imageHeight), bands |-> bands,
         removed |-> bands, afterLogo |-> afterLogo, deduplicated |-> deduplicated,
         final |-> final, threw |-> FALSE]

\* a step 4 that is not guarded
medianGuardAlways(deduplicated) == TRUE

\* if (deduplicated.length > 0)
medianGuard(deduplicated) == Len(deduplicated) > 0

\* filterLinesBalanced, with the list after each step; threw tells that
\* medianLength was undefined, on which medianLength.toFixed throws
filterLinesBalanced(ls, imageWidth, imageHeight) ==
    LET basic == SelectSeq(ls, LAMBDA line :
                    /\ line.length >= minKeptLengthBalanced
                    /\ ~(10 * line.length > 9 * imageWidth)
                    /\ ~(100 * line.y < 8 * imageHeight)
                    /\ ~(100 * line.y > 97 * imageHeight))
        bands == findDenseRegions(basic, imageHeight)
        removed == SelectSeq(bands, LAMBDA region : region.density > removalDensity)
        afterLogo == SelectSeq(basic, LAMBDA line :
                        \A r \in 1..Len(removed) : ~inBand(line.y, removed[r], imageHeight))
        deduplicated == deduplicate(afterLogo, minYDistanceBalanced)
        lengths == sortedLengths(deduplicated)
        final == IF medianGuard(deduplicated)
                 THEN SelectSeq(deduplicated, LAMBDA line :
                          10 * line.length >= 3 * lengths[(Len(lengths) \div 2) + 1])
                 ELSE deduplicated
    IN  [basic |-> basic, bins |-> countBins(basic, imageHeight), bands |-> bands,
         removed |-> removed, afterLogo |-> afterLogo, deduplicated |-> deduplicated,
         final |-> final, threw |-> medianGuard(deduplicated) /\ lengths = <<>>]

(***************************************************************************)
(* Filter inputs: raw segments in scan order (ascending y): a dense group  *)
(* in one of the top bins, a smaller group in the bin under it, and body   *)
(* lines on some of the rows bodyRows, the last of them possibly short.    *)
(***************************************************************************)
PageW == 400
PageH == 200

denseCounts == {0, denseThreshold, logoDensity + 1, removalDensity, removalDensity + 1}
nextCounts == {0, 2, denseThreshold \div 2}
bodyRows == {100, 110, 115, 116, 125, 126, 150}
bodyLengths == {100, 45, 25}

rawLine(startX, y, length) ==
    [startX |-> startX, endX |-> startX + length, y |-> y, length |-> length, thickness |-> 1]

\* n lines spread over the rows of bin b
binGroup(b, n) ==
    LET rows == PageH \div numBins
        base == (b * PageH + numBins - 1) \div numBins
    IN  sortByY([k \in 1..n |-> rawLine(50 + 5 * k, base + (k % rows), 100)])

RECURSIVE bodyLines(_, _)
bodyLines(rows, lastLength) ==
    IF rows = {} THEN <<>>
    ELSE LET y == CHOOSE r \in rows : \A q \in rows : r >= q
         IN  Append(bodyLines(rows \ {y}, 100), rawLine(60, y, lastLength))

InitFilter ==
    /\ pc = "raw"
    /\ result = Unused /\ point = Unused /\ trips = 0
    /\ NoRequest
    /\ image = [width |-> PageW, height |-> PageH]
    /\ \E variant \in {"intelligent", "balanced"} : options = [variant |-> variant]
    /\ \E b \in {1, 3}, n \in denseCounts, n2 \in nextCounts,
          rows \in SUBSET bodyRows, lastLength \in bodyLengths :
          lines = binGroup(b, n) \o binGroup(b + 1, n2) \o bodyLines(rows, lastLength)

FilterIntelligent ==
    /\ pc = "raw" /\ options.variant = "intelligent"
    /\ result' = filterLinesIntelligent(lines, image.width, image.height)
    /\ pc' = "filtered"
    /\ UNCHANGED <<suspended, image, options, lines, point, trips, handlerVars>>

FilterBalanced ==
    /\ pc = "raw" /\ options.variant = "balanced"
    /\ result' = filterLinesBalanced(lines, image.width, image.height)
    /\ pc' = "filtered"
    /\ UNCHANGED <<suspended, image, options, lines, point, trips, handlerVars>>

NextFilter == FilterIntelligent \/ FilterBalanced

SpecFilter == InitFilter /\ [][NextFilter]_vars

(***************************************************************************)
(* The coordinate mapper.  Coordinates and scales are exact fractions n/d  *)
(* in lowest terms; the rounding of the floating-point numbers the code    *)
(* computes with is not modelled.                                          *)
(***************************************************************************)
RECURSIVE gcd(_, _)
gcd(a, b) == IF b = 0 THEN a ELSE gcd(b, a % b)

\* the fraction n/d in lowest terms with a positive denominator
Q(n, d) ==
    LET g == gcd(abs(n), abs(d))
        s == IF d < 0 THEN -1 ELSE 1
    IN  [n |-> (s * n) \div g, d |-> (s * d) \div g]

int(k) == Q(k, 1)
mul(a, b) == Q(a.n * b.n, a.d * b.d)
div(a, b) == Q(a.n * b.d, a.d * b.n)
sub(a, b) == Q(a.n * b.d - b.n * a.d, a.d * b.d)
add(a, b) == Q(a.n * b.d + b.n * a.d, a.d * b.d)

pixelToPDFCoordinates(pixelX, pixelY, imageWidth, imageHeight, pdfPageWidth, pdfPageHeight) ==
    LET scaleX == div(pdfPageWidth, imageWidth)
        scaleY == div(pdfPageHeight, imageHeight)
    IN  [x |-> mul(pixelX, scaleX),
         y |-> sub(pdfPageHeight, mul(pixelY, scaleY))]

\* an inverse that forgets that the y axis is flipped
pdfToPixelNoFlip(pdfX, pdfY, imageWidth, imageHeight, pdfPageWidth, pdfPageHeight) ==
    [x |-> mul(pdfX, div(imageWidth, pdfPageWidth)),
     y |-> mul(pdfY, div(imageHeight, pdfPageHeight))]

pdfToPixelCoordinates(pdfX, pdfY, imageWidth, imageHeight, pdfPageWidth, pdfPageHeight) ==
    LET scaleX == div(imageWidth, pdfPageWidth)
        scaleY == div(imageHeight, pdfPageHeight)
    IN  [x |-> mul(pdfX, scaleX),
         y |-> mul(sub(pdfPageHeight, pdfY), scaleY)]

\* Mapper inputs: every positive size up to MaxDim, every point of the grid
\* -1 .. MaxDim + 1, given in pixel space or in document space.
MaxDim == 3
MaxTrips == 4

InitCoord ==
    /\ pc = "mapper"
    /\ lines = <<>> /\ result = Unused /\ trips = 0
    /\ NoRequest
    /\ \E iw \in 1..MaxDim, ih \in 1..MaxDim, pw \in 1..MaxDim, ph \in 1..MaxDim :
          image = [imageWidth |-> int(iw), imageHeight |-> int(ih),
                   pdfPageWidth |-> int(pw), pdfPageHeight |-> int(ph)]
    /\ \E x \in -1..(MaxDim + 1), y \in -1..(MaxDim + 1), space \in {"pixel", "pdf"} :
          /\ point = [x |-> int(x), y |-> int(y), space |-> space]
          /\ options = [origin |-> point]

ToPDF ==
    /\ pc = "mapper" /\ point.space = "pixel" /\ trips < MaxTrips
    /\ point' = [space |-> "pdf"] @@
                pixelToPDFCoordinates(point.x, point.y, image.imageWidth, image.imageHeight,
                                      image.pdfPageWidth, image.pdfPageHeight)
    /\ trips' = trips + 1
    /\ UNCHANGED <<suspended, pc, image, options, lines, result, handlerVars>>

ToPixel ==
    /\ pc = "mapper" /\ point.space = "pdf" /\ trips < MaxTrips
    /\ point' = [space |-> "pixel"] @@
                pdfToPixelCoordinates(point.x, point.y, image.imageWidth, image.imageHeight,
                                      image.pdfPageWidth, image.pdfPageHeight)
    /\ trips' = trips + 1
    /\ UNCHANGED <<suspended, pc, image, options, lines, result, handlerVars>>

NextCoord == ToPDF \/ ToPixel

SpecCoord == InitCoord /\ [][NextCoord]_vars

(***************************************************************************)
(* Text analysis of index.js.  A text is a sequence of characters.         *)
(***************************************************************************)
\* toLowerCase, for the capital letters the texts use
lower(c) ==
    CASE c = "A" -> "a" [] c = "D" -> "d" [] c = "N" -> "n" [] c = "P" -> "p"
      [] c = "S" -> "s" [] c = "T" -> "t" [] OTHER -> c

\* \s
isSpace(c) == c \in {" ", "\t", "\n"}

\* the word is found at position i of the text, letter case ignored
matchesAt(text, i, word) ==
    /\ i + Len(word) - 1 <= Len(text)
    /\ \A k \in 1..Len(word) : lower(text[i + k - 1]) = word[k]

\* text.toLowerCase().includes(word)
includes(text, word) == \E i \in 1..Len(text) : matchesAt(text, i, word)

\* the first position from i on that holds no white space (Len + 1 at the end)
RECURSIVE skipSpace(_, _)
skipSpace(text, i) ==
    IF i <= Len(text) /\ isSpace(text[i]) THEN skipSpace(text, i + 1) ELSE i

\* /word\s*$/i
endsWith(text, word) ==
    \E i \in 1..Len(text) :
        matchesAt(text, i, word) /\ skipSpace(text, i + Len(word)) > Len(text)

\* /word\s*\./i
followedByDot(text, word) ==
    \E i \in 1..Len(text) :
        /\ matchesAt(text, i, word)
        /\ LET j == skipSpace(text, i + Len(word))
           IN  j <= Len(text) /\ text[j] = "."

\* last position of the run of c that starts at i
RECURSIVE runEnd(_, _, _)
runEnd(text, c, i) ==
    IF i < Len(text) /\ text[i + 1] = c THEN runEnd(text, c, i + 1) ELSE i

\* the matches of /c{n,}/g: the maximal runs of c of length n or more
RECURSIVE runsFrom(_, _, _, _)
runsFrom(text, c, n, i) ==
    IF i > Len(text) THEN <<>>
    ELSE IF text[i] = c
         THEN LET j == runEnd(text, c, i)
              IN  (IF j - i + 1 >= n
                   THEN <<[start |-> i - 1, end |-> j, length |-> j - i + 1]>>
                   ELSE <<>>) \o runsFrom(text, c, n, j + 1)
         ELSE runsFrom(text, c, n, i + 1)

\* /_{3,}/g
findUnderscoreSegments(text) == runsFrom(text, "_", 3, 1)

\* / {8,}/g
findLongSpaceSegments(text) == runsFrom(text, " ", 8, 1)

hasFillingPattern(text) ==
    \/ endsWith(text, <<"a", "t", ":">>)
    \/ followedByDot(text, <<"o", "f", " ", "$">>)
    \/ endsWith(text, <<"a", "m", "o", "u", "n", "t", " ", "o", "f", " ", "$">>)
    \/ followedByDot(text, <<"c", "o", "m", "p", "a", "n", "y", ":">>)

guessFieldType(text) ==
    IF includes(text, <<"s", "i", "g", "n">>)
          \/ includes(text, <<"s", "i", "g", "n", "a", "t", "u", "r", "e">>)
    THEN "signature"
    ELSE IF \/ includes(text, <<"$">>)
            \/ includes(text, <<"a", "m", "o", "u", "n", "t">>)
            \/ includes(text, <<"s", "u", "m">>)
            \/ includes(text, <<"p", "r", "i", "c", "e">>)
         THEN "currency"
         ELSE IF includes(text, <<"d", "a", "t", "e">>)
              THEN "date"
              ELSE "text"

\* the regions one element contributes: one per detector that matches
regionsOf(element) ==
    LET region(type, segments, expectedLines) ==
            [type |-> type, page |-> element.Page, bounds |-> element.Bounds,
             text |-> element.Text, expectedLines |-> expectedLines,
             segments |-> segments]
        underscoreSegments == findUnderscoreSegments(element.Text)
        longSpaceSegments == findLongSpaceSegments(element.Text)
    IN  (IF Len(underscoreSegments) > 0
         THEN <<region("underscore", underscoreSegments, Len(underscoreSegments))>>
         ELSE <<>>)
        \o (IF Len(longSpaceSegments) > 0
            THEN <<region("long-space", longSpaceSegments, Len(longSpaceSegments))>>
            ELSE <<>>)
        \o (IF hasFillingPattern(element.Text)
            THEN <<region("pattern", <<>>, 1)>>
            ELSE <<>>)

\* analyzeTextElements(elements).all; an element without Text or Bounds is skipped
RECURSIVE analyzeTextElements(_)
analyzeTextElements(elements) ==
    IF elements = <<>> THEN <<>>
    ELSE (IF Head(elements).Text = <<>> \/ Head(elements).Bounds = <<>>
          THEN <<>>
          ELSE regionsOf(Head(elements)))
         \o analyzeTextElements(Tail(elements))

(***************************************************************************)
(* The /process-ocr handler of index.js.  Page p of the code is entry      *)
(* p + 1 of the sequences images and request.document.  The handler passes *)
(* the crop as {x, y, width, height}; the scanner takes [x1, y1, x2, y2]:  *)
(* the call is made with x1 = x, y1 = y, x2 = x + width, y2 = y + height.  *)
(***************************************************************************)
\* const padding = 15
padding == 15

floorDiv(a, b) == a \div b
ceilDiv(a, b) == -((-a) \div b)

hasImage(p) == p >= 0 /\ p < Len(images)

\* regionsByPage walked by Object.keys: by ascending page, in insertion order
\* within a page; a page without image is skipped
RECURSIVE byPage(_)
byPage(regions) ==
    IF regions = <<>> THEN <<>>
    ELSE LET rest == byPage(SubSeq(regions, 1, Len(regions) - 1))
             r == regions[Len(regions)]
             k == Cardinality({i \in 1..Len(rest) : rest[i].page <= r.page})
         IN  SubSeq(rest, 1, k) \o <<r>> \o SubSeq(rest, k + 1, Len(rest))

targetedWork == SelectSeq(byPage(targetRegions), LAMBDA r : hasImage(r.page))

\* a crop that is padded but not clamped to the image
safeRegionUnclamped(region) ==
    LET img == images[region.page + 1]
        pdfPage == request.document[region.page + 1]
        bounds == region.bounds
        pixelX1 == floorDiv(bounds[1] * img.width, pdfPage.width)
        pixelY1 == floorDiv((pdfPage.height - bounds[4]) * img.height, pdfPage.height)
        pixelX2 == ceilDiv(bounds[3] * img.width, pdfPage.width)
        pixelY2 == ceilDiv((pdfPage.height - bounds[2]) * img.height, pdfPage.height)
    IN  [x |-> pixelX1 - padding,
         y |-> pixelY1 - padding,
         width |-> (pixelX2 + padding) - (pixelX1 - padding),
         height |-> (pixelY2 + padding) - (pixelY1 - padding)]

\* the padded crop of a region, clamped to the image
safeRegionOf(region) ==
    LET img == images[region.page + 1]
        pdfPage == request.document[region.page + 1]
        bounds == region.bounds
        pixelX1 == floorDiv(bounds[1] * img.width, pdfPage.width)
        pixelY1 == floorDiv((pdfPage.height - bounds[4]) * img.height, pdfPage.height)
        pixelX2 == ceilDiv(bounds[3] * img.width, pdfPage.width)
        pixelY2 == ceilDiv((pdfPage.height - bounds[2]) * img.height, pdfPage.height)
    IN  [x |-> Max(0, pixelX1 - padding),
         y |-> Max(0, pixelY1 - padding),
         width |-> Min(img.width, pixelX2 + padding) - Max(0, pixelX1 - padding),
         height |-> Min(img.height, pixelY2 + padding) - Max(0, pixelY1 - padding)]

\* the scanner called on a crop of page p
scanCrop(p, r, minLength) ==
    detectHorizontalLinesInRegion(images[p + 1].buffer, r.x, r.y, r.x + r.width,
                                  r.y + r.height, minLength, defaultMaxThickness)

cropRejected(p, r) == badExtract(images[p + 1].buffer, r.x, r.y, r.width, r.height)

\* an area named after its page instead of the running index
areaOfNamedByPage(id, p, absolutePixelX, absolutePixelY, length, fieldType, source) ==
    LET img == images[p + 1]
        pdfPage == request.document[p + 1]
        pdfX == Q(absolutePixelX * pdfPage.width, img.width)
        pdfY == sub(int(pdfPage.height), Q(absolutePixelY * pdfPage.height, img.height))
    IN  [id |-> id, field_name |-> p, page |-> p,
         x |-> pdfX, y |-> sub(pdfY, int(2)),
         width |-> Q(length * pdfPage.width, img.width), height |-> int(15),
         field_type |-> fieldType, source |-> source]

\* the area pushed for a segment: document coordinates from the pixel position;
\* the name is text_<fieldIndex after the increment>, kept as that number
areaOf(id, p, absolutePixelX, absolutePixelY, length, fieldType, source) ==
    LET img == images[p + 1]
        pdfPage == request.document[p + 1]
        pdfX == Q(absolutePixelX * pdfPage.width, img.width)
        pdfY == sub(int(pdfPage.height), Q(absolutePixelY * pdfPage.height, img.height))
    IN  [id |-> id, field_name |-> id + 1, page |-> p,
         x |-> pdfX, y |-> sub(pdfY, int(2)),
         width |-> Q(length * pdfPage.width, img.width), height |-> int(15),
         field_type |-> fieldType, source |-> source]

\* the areas of the segments of one targeted region
targetedAreas(region, safeRegion, found, firstId) ==
    [k \in 1..Len(found) |->
        areaOf(firstId + k - 1, region.page, safeRegion.x + found[k].startX,
               safeRegion.y + found[k].y, found[k].length,
               guessFieldType(region.text), "targeted")]

\* the segment's start lies in a crop of the targeted pass on page p
startInScanned(line, p, scanned) ==
    \E i \in 1..Len(scanned) :
        /\ scanned[i].page = p
        /\ line.startX >= scanned[i].x
        /\ line.startX <= scanned[i].x + scanned[i].width
        /\ line.y >= scanned[i].y
        /\ line.y <= scanned[i].y + scanned[i].height

\* the filter of the supplemental pass
supplementalFilter(allLines, p, scanned) ==
    LET img == images[p + 1]
    IN  SelectSeq(allLines, LAMBDA line :
            /\ ~(100 * line.y < 12 * img.height)
            /\ ~(100 * line.y > 97 * img.height)
            /\ ~(100 * line.startX < 8 * img.width \/ 100 * line.startX > 92 * img.width)
            /\ ~startInScanned(line, p, scanned))

\* supplemental areas that carry the tag of the targeted pass
supplementalAreasTaggedTargeted(p, kept, firstId) ==
    [k \in 1..Len(kept) |->
        areaOf(firstId + k - 1, p, kept[k].startX, kept[k].y, kept[k].length,
               "text", "targeted")]

supplementalAreas(p, kept, firstId) ==
    [k \in 1..Len(kept) |->
        areaOf(firstId + k - 1, p, kept[k].startX, kept[k].y, kept[k].length,
               "text", "supplemental")]

\* a targeted loop that stops one region early
moreRegionsButLast(i, n) == i + 1 < n

\* the targeted loops go on while a region is left
moreRegions(i, n) == i <= n

\* a failure response that carries the areas found so far
failureWithPartialResults == [status |-> 500, success |-> FALSE, fields |-> fillableAreas]

\* the response of the catch block
failure == [status |-> 500, success |-> FALSE]

Validate ==
    /\ pc = "start"
    /\ IF request.pdf_url
       THEN pc' = "download" /\ UNCHANGED response
       ELSE pc' = "done" /\ response' = [status |-> 400, success |-> FALSE]
    /\ UNCHANGED <<suspended, lines, coreVars, request, images, targetRegions, scannedAreas,
                   fillableAreas, fieldIndex, targetedLinesCount, supplementalLinesCount,
                   regionIndex, pageIndex, filteredLines>>

\* fetch answers; the text elements are analysed
Download ==
    /\ pc = "download"
    /\ targetRegions' = analyzeTextElements(request.extract_elements)
    /\ pc' = "convert"
    /\ UNCHANGED <<suspended, lines, coreVars, request, images, scannedAreas, fillableAreas,
                   fieldIndex, targetedLinesCount, supplementalLinesCount, regionIndex,
                   pageIndex, filteredLines, response>>

\* fetch fails or answers with an error status: the handler throws
DownloadFails ==
    /\ pc = "download"
    /\ response' = failure
    /\ pc' = "done"
    /\ UNCHANGED <<suspended, lines, coreVars, request, images, targetRegions, scannedAreas,
                   fillableAreas, fieldIndex, targetedLinesCount, supplementalLinesCount,
                   regionIndex, pageIndex, filteredLines>>

\* convertPDFToImages and PDFDocument.load; the targeted loop is entered
Convert ==
    /\ pc = "convert"
    /\ images' = [p \in 1..Len(request.document) |->
                    [buffer |-> request.document[p].raster,
                     width |-> request.document[p].raster.width,
                     height |-> request.document[p].raster.height]]
    /\ regionIndex' = 1
    /\ pageIndex' = 0
    /\ pc' = "targeted"
    /\ UNCHANGED <<suspended, lines, coreVars, request, targetRegions, scannedAreas, fillableAreas,
                   fieldIndex, targetedLinesCount, supplementalLinesCount, filteredLines,
                   response>>

\* convertPDFToImages or PDFDocument.load throws
ConvertFails ==
    /\ pc = "convert"
    /\ response' = failure
    /\ pc' = "done"
    /\ UNCHANGED <<suspended, lines, coreVars, request, images, targetRegions, scannedAreas,
                   fillableAreas, fieldIndex, targetedLinesCount, supplementalLinesCount,
                   regionIndex, pageIndex, filteredLines>>

\* the targeted loop has no region left: the supplemental loop is entered
TargetedDone ==
    /\ pc = "targeted"
    /\ ~moreRegions(regionIndex, Len(targetedWork))
    /\ pc' = "supplemental"
    /\ UNCHANGED <<suspended, lines, coreVars, handlerVars>>

\* one region: the crop is recorded, then the scanner is called on it
TargetedCall ==
    /\ pc = "targeted"
    /\ moreRegions(regionIndex, Len(targetedWork))
    /\ LET region == targetedWork[regionIndex]
           safeRegion == safeRegionOf(region)
       IN  /\ scannedAreas' = Append(scannedAreas, [page |-> region.page] @@ safeRegion)
           /\ IF cropRejected(region.page, safeRegion)
              THEN /\ response' = failure
                   /\ pc' = "done"
                   /\ UNCHANGED lines
              ELSE /\ lines' = scanCrop(region.page, safeRegion, targetedMinLength)
                   /\ pc' = "targetedAwait"
                   /\ UNCHANGED response
    /\ UNCHANGED <<suspended, coreVars, request, images, targetRegions, fillableAreas, fieldIndex,
                   targetedLinesCount, supplementalLinesCount, regionIndex, pageIndex,
                   filteredLines>>

\* the scanner returns: the segments of the region become areas
TargetedReturn ==
    /\ pc = "targetedAwait"
    /\ LET region == targetedWork[regionIndex]
       IN  fillableAreas' = fillableAreas \o
               targetedAreas(region, safeRegionOf(region), lines, fieldIndex)
    /\ targetedLinesCount' = targetedLinesCount + Len(lines)
    /\ fieldIndex' = fieldIndex + Len(lines)
    /\ regionIndex' = regionIndex + 1
    /\ pc' = "targeted"
    /\ UNCHANGED <<suspended, lines, coreVars, request, images, targetRegions, scannedAreas,
                   supplementalLinesCount, pageIndex, filteredLines, response>>

\* the whole page is scanned
SupplementalCall ==
    /\ pc = "supplemental"
    /\ pageIndex < Len(images)
    /\ lines' = scanCrop(pageIndex, [x |-> 0, y |-> 0, width |-> images[pageIndex + 1].width,
                                     height |-> images[pageIndex + 1].height],
                         supplementalMinLength)
    /\ pc' = "supplementalAwait"
    /\ UNCHANGED <<suspended, coreVars, handlerVars>>

\* the scanner returns: the segments are filtered and the kept ones become areas
SupplementalReturn ==
    /\ pc = "supplementalAwait"
    /\ filteredLines' = supplementalFilter(lines, pageIndex, scannedAreas)
    /\ supplementalLinesCount' = supplementalLinesCount + Len(filteredLines')
    /\ fillableAreas' = fillableAreas \o supplementalAreas(pageIndex, filteredLines', fieldIndex)
    /\ fieldIndex' = fieldIndex + Len(filteredLines')
    /\ pc' = "pageDone"
    /\ UNCHANGED <<suspended, lines, coreVars, request, images, targetRegions, scannedAreas,
                   targetedLinesCount, regionIndex, pageIndex, response>>

\* the next page, or the end of the supplemental loop
NextPage ==
    /\ pc = "pageDone"
    /\ pageIndex' = pageIndex + 1
    /\ pc' = IF pageIndex + 1 < Len(images) THEN "supplemental" ELSE "create"
    /\ UNCHANGED <<suspended, lines, coreVars, request, images, targetRegions, scannedAreas,
                   fillableAreas, fieldIndex, targetedLinesCount, supplementalLinesCount,
                   regionIndex, filteredLines, response>>

\* createFormFieldsOCR, then res.json
Respond ==
    /\ pc = "create"
    /\ response' = [status |-> 200, success |-> TRUE, pdf_base64 |-> "pdf",
                    targeted_lines |-> targetedLinesCount,
                    supplemental_lines |-> supplementalLinesCount,
                    fields |-> [k \in 1..Len(fillableAreas) |->
                                   [id |-> fillableAreas[k].id,
                                    name |-> fillableAreas[k].field_name,
                                    type |-> fillableAreas[k].field_type,
                                    page |-> fillableAreas[k].page,
                                    source |-> fillableAreas[k].source]]]
    /\ pc' = "done"
    /\ UNCHANGED <<suspended, lines, coreVars, request, images, targetRegions, scannedAreas,
                   fillableAreas, fieldIndex, targetedLinesCount, supplementalLinesCount,
                   regionIndex, pageIndex, filteredLines>>

\* createFormFieldsOCR throws
CreateFails ==
    /\ pc = "create"
    /\ response' = failure
    /\ pc' = "done"
    /\ UNCHANGED <<suspended, lines, coreVars, request, images, targetRegions, scannedAreas,
                   fillableAreas, fieldIndex, targetedLinesCount, supplementalLinesCount,
                   regionIndex, pageIndex, filteredLines>>

(***************************************************************************)
(* Requests: a document of one or two pages of 80 x 8 pixels rendered at   *)
(* twice the page size, page 0 blank or with one rule, and up to two text  *)
(* elements.                                                               *)
(***************************************************************************)
pageRaster(ink) == [width |-> 80, height |-> 8, ink |-> ink]
pdfPageOf(ink) == [width |-> 40, height |-> 4, raster |-> pageRaster(ink)]

rules ==
    {[x |-> x, y |-> y, len |-> len, t |-> t] :
        x \in {8, 20}, y \in {0, 4}, len \in {41, 50}, t \in {1, 2}}

documents ==
    {<<pdfPageOf(ink)>> : ink \in {{}} \cup {{r} : r \in rules}}
    \cup {<<pdfPageOf(ink), pdfPageOf({[x |-> 20, y |-> 5, len |-> 45, t |-> 1]})>> :
             ink \in {{}} \cup {{r} : r \in rules}}

textName == <<"N", "a", "m", "e", ":", " ", "_", "_", "_">>
textSign == <<"S", "i", "g", "n", " ", "_", "_", "_", " ", " ", " ", " ", " ", " ", " ", " ">>
textPaidAt == <<"P", "a", "i", "d", " ", "a", "t", ":">>
textTotal == <<"T", "o", "t", "a", "l">>

\* document bounds [x1, y1, x2, y2]: around columns 30..50, 60..76 of the raster,
\* and right of the page
boundsLeft == <<15, 1, 25, 2>>
boundsRight == <<30, 1, 38, 2>>
boundsOutside == <<60, 1, 70, 2>>

elementChoices ==
    {[Text |-> textName, Bounds |-> boundsLeft, Page |-> 0],
     [Text |-> textSign, Bounds |-> boundsRight, Page |-> 0],
     [Text |-> textPaidAt, Bounds |-> boundsLeft, Page |-> 1],
     [Text |-> textTotal, Bounds |-> boundsLeft, Page |-> 0],
     [Text |-> textName, Bounds |-> boundsOutside, Page |-> 0],
     [Text |-> textName, Bounds |-> <<>>, Page |-> 0]}

elementLists ==
    {<<>>} \cup {<<e>> : e \in elementChoices}
           \cup {<<e, f>> : e \in elementChoices, f \in elementChoices}

InitRequest ==
    /\ pc = "start"
    /\ lines = <<>>
    /\ image = Unused /\ options = Unused /\ result = Unused /\ point = Unused /\ trips = 0
    /\ \E url \in BOOLEAN, document \in documents, elements \in elementLists :
          request = [pdf_url |-> url, document |-> document, extract_elements |-> elements]
    /\ images = <<>> /\ targetRegions = <<>> /\ scannedAreas = <<>>
    /\ fillableAreas = <<>> /\ fieldIndex = 1 /\ targetedLinesCount = 0
    /\ supplementalLinesCount = 0 /\ regionIndex = 1 /\ pageIndex = 0
    /\ filteredLines = <<>> /\ response = Unused
    /\ suspended = Unused

NextRequest ==
    \/ Validate \/ Download \/ DownloadFails \/ Convert \/ ConvertFails
    \/ TargetedDone \/ TargetedCall \/ TargetedReturn
    \/ SupplementalCall \/ SupplementalReturn \/ NextPage \/ Respond \/ CreateFails

SpecRequest == InitRequest /\ [][NextRequest]_vars

(***************************************************************************)
(* Two requests in one process.  Node runs one handler at a time and can   *)
(* change handler only where the running one awaits.  The variables hold   *)
(* the locals of the running handler; suspended holds those of the other.  *)
(***************************************************************************)
\* the locals of the running handler
frame ==
    [pc |-> pc, lines |-> lines, request |-> request, images |-> images,
     targetRegions |-> targetRegions, scannedAreas |-> scannedAreas,
     fillableAreas |-> fillableAreas, fieldIndex |-> fieldIndex,
     targetedLinesCount |-> targetedLinesCount,
     supplementalLinesCount |-> supplementalLinesCount, regionIndex |-> regionIndex,
     pageIndex |-> pageIndex, filteredLines |-> filteredLines, response |-> response]

\* the handler has not started, has answered, or waits for a promise
awaiting ==
    pc \in {"start", "download", "convert", "targetedAwait", "supplementalAwait",
            "create", "done"}

\* a field index kept outside the handler, shared by the requests
resumedSharingFieldIndex(saved, current) ==
    [saved EXCEPT !.fieldIndex = current.fieldIndex]

\* the handler that resumes finds its locals as it left them: fillableAreas,
\* fieldIndex, scannedAreas and the counters are declared inside the handler
resumed(saved, current) == saved

Switch ==
    /\ awaiting
    /\ LET next == resumed(suspended, frame)
       IN  /\ pc' = next.pc
           /\ lines' = next.lines
           /\ request' = next.request
           /\ images' = next.images
           /\ targetRegions' = next.targetRegions
           /\ scannedAreas' = next.scannedAreas
           /\ fillableAreas' = next.fillableAreas
           /\ fieldIndex' = next.fieldIndex
           /\ targetedLinesCount' = next.targetedLinesCount
           /\ supplementalLinesCount' = next.supplementalLinesCount
           /\ regionIndex' = next.regionIndex
           /\ pageIndex' = next.pageIndex
           /\ filteredLines' = next.filteredLines
           /\ response' = next.response
    /\ suspended' = frame
    /\ UNCHANGED coreVars

twoRequests ==
    {[pdf_url |-> TRUE,
      document |-> <<pdfPageOf({[x |-> 8, y |-> 4, len |-> 50, t |-> 1]})>>,
      extract_elements |-> <<[Text |-> textName, Bounds |-> boundsLeft, Page |-> 0]>>],
     [pdf_url |-> TRUE,
      document |-> <<pdfPageOf({[x |-> 20, y |-> 4, len |-> 41, t |-> 2]})>>,
      extract_elements |-> <<>>],
     [pdf_url |-> TRUE,
      document |-> <<pdfPageOf({[x |-> 20, y |-> 4, len |-> 50, t |-> 1]}),
                     pdfPageOf({[x |-> 20, y |-> 5, len |-> 45, t |-> 1]})>>,
      extract_elements |-> <<[Text |-> textSign, Bounds |-> boundsRight, Page |-> 0],
                             [Text |-> textPaidAt, Bounds |-> boundsLeft, Page |-> 1]>>]}

newFrame(r) ==
    [pc |-> "start", lines |-> <<>>, request |-> r, images |-> <<>>,
     targetRegions |-> <<>>, scannedAreas |-> <<>>, fillableAreas |-> <<>>,
     fieldIndex |-> 1, targetedLinesCount |-> 0, supplementalLinesCount |-> 0,
     regionIndex |-> 1, pageIndex |-> 0, filteredLines |-> <<>>, response |-> Unused]

InitTwo ==
    /\ pc = "start"
    /\ lines = <<>>
    /\ image = Unused /\ options = Unused /\ result = Unused /\ point = Unused /\ trips = 0
    /\ request \in twoRequests
    /\ images = <<>> /\ targetRegions = <<>> /\ scannedAreas = <<>>
    /\ fillableAreas = <<>> /\ fieldIndex = 1 /\ targetedLinesCount = 0
    /\ supplementalLinesCount = 0 /\ regionIndex = 1 /\ pageIndex = 0
    /\ filteredLines = <<>> /\ response = Unused
    /\ \E r \in twoRequests : suspended = newFrame(r)

NextTwo == NextRequest \/ Switch

SpecTwo == InitTwo /\ [][NextTwo]_vars

(***************************************************************************)
(* The crop of a region on its own                                         *)
(***************************************************************************)
\* a 100 x 50 raster of a 40 x 20 page (2.5 pixels per point)
cropPage == [width |-> 40, height |-> 20,
             raster |-> [width |-> 100, height |-> 50, ink |-> {}]]
boundsX == {-10, 0, 7, 20, 33, 40, 50}
boundsY == {-5, 0, 3, 10, 17, 20, 25}

InitCrop ==
    /\ pc = "region"
    /\ lines = <<>>
    /\ image = Unused /\ options = Unused /\ result = Unused /\ trips = 0
    /\ request = [pdf_url |-> TRUE, document |-> <<cropPage>>, extract_elements |-> <<>>]
    /\ images = <<[width |-> cropPage.raster.width, height |-> cropPage.raster.height,
                   buffer |-> cropPage.raster]>>
    /\ \E x1 \in boundsX, x2 \in boundsX, y1 \in boundsY, y2 \in boundsY :
          /\ x1 <= x2 /\ y1 <= y2
          /\ point = [page |-> 0, bounds |-> <<x1, y1, x2, y2>>]
    /\ targetRegions = <<>> /\ scannedAreas = <<>>
    /\ fillableAreas = <<>> /\ fieldIndex = 1 /\ targetedLinesCount = 0
    /\ supplementalLinesCount = 0 /\ regionIndex = 1 /\ pageIndex = 0
    /\ filteredLines = <<>> /\ response = Unused
    /\ suspended = Unused

\* the handler computes the padded crop of the region
Crop ==
    /\ pc = "region"
    /\ result' = safeRegionOf(point)
    /\ pc' = "cropped"
    /\ UNCHANGED <<suspended, lines, image, options, point, trips, handlerVars>>

SpecCrop == InitCrop /\ [][Crop]_vars

(***************************************************************************)
(* createFormFieldsOCR / createFormFields                                  *)
(***************************************************************************)
less(a, b) == a.n * b.d < b.n * a.d
mathMin(a, b) == IF less(b, a) THEN b ELSE a
mathMax(a, b) == IF less(a, b) THEN b ELSE a

\* a rectangle whose width and height are raised to the minimum but not cut
\* to the room left on the page
safeRectKeepingSize(area, pageWidth, pageHeight) ==
    LET safeX == mathMax(int(0), mathMin(area.x, sub(pageWidth, int(10))))
        safeY == mathMax(int(0), mathMin(area.y, sub(pageHeight, int(5))))
    IN  [x |-> safeX, y |-> safeY,
         width |-> mathMax(int(10), area.width),
         height |-> mathMax(int(5), area.height)]

\* safeX, safeY, safeWidth, safeHeight
safeRect(area, pageWidth, pageHeight) ==
    LET safeX == mathMax(int(0), mathMin(area.x, sub(pageWidth, int(10))))
        safeY == mathMax(int(0), mathMin(area.y, sub(pageHeight, int(5))))
    IN  [x |-> safeX, y |-> safeY,
         width |-> mathMax(int(10), mathMin(area.width, sub(pageWidth, safeX))),
         height |-> mathMax(int(5), mathMin(area.height, sub(pageHeight, safeY)))]

\* a catch block that records the message but does not count the error
caughtUncounted(st, area, message) ==
    [st EXCEPT !.errors = Append(@, [field_name |-> area.field_name, message |-> message])]

\* the catch block: errorCount++ and one entry of errors
caught(st, area, message) ==
    [st EXCEPT !.errorCount = @ + 1,
               !.errors = Append(@, [field_name |-> area.field_name, message |-> message])]

\* the body of the loop for one area; pages[area.page] is undefined for a page
\* the document does not have, and createTextField throws for a name that a
\* field of the form already has
createField(st, area, pages) ==
    IF ~(area.page + 1 \in 1..Len(pages))
    THEN caught(st, area, "page not found")
    ELSE IF area.field_name \in st.form
    THEN caught(st, area, "name rejected")
    ELSE LET page == pages[area.page + 1]
             rect == safeRect(area, int(page.width), int(page.height))
         IN  [st EXCEPT !.form = @ \cup {area.field_name},
                        !.widgets = Append(@, [field_name |-> area.field_name,
                                               page |-> area.page] @@ rect),
                        !.successCount = @ + 1]

RECURSIVE createFields(_, _, _, _)
createFields(st, areas, k, pages) ==
    IF k > Len(areas) THEN st
    ELSE createFields(createField(st, areas[k], pages), areas, k + 1, pages)

\* the value returned, with the widgets added to the pages
createFormFieldsOCR(document, areas) ==
    LET st == createFields([form |-> document.fields, widgets |-> <<>>,
                            successCount |-> 0, errorCount |-> 0, errors |-> <<>>],
                           areas, 1, document.pages)
    IN  [statistics |-> [detected_areas |-> Len(areas),
                         created_fields |-> st.successCount,
                         errors |-> st.errorCount],
         errors |-> st.errors,
         widgets |-> st.widgets]

\* documents of one page (40 x 20, 10 x 5 or 8 x 4), with or without a field
\* named 2 in the form
fieldDocuments ==
    {[pages |-> <<[width |-> size[1], height |-> size[2]]>>, fields |-> fields] :
        size \in {<<40, 20>>, <<10, 5>>, <<8, 4>>}, fields \in {{}, {2}}}

\* areas left of, inside and right of the page, on page 0 or on a missing page
areaChoices ==
    {[field_name |-> name, page |-> page, x |-> x, y |-> y,
      width |-> size[1], height |-> size[2], field_type |-> "text"] :
        name \in {2, 3}, page \in {0, 1},
        x \in {int(-5), Q(71, 2), int(100)}, y \in {int(-3), Q(37, 2), int(50)},
        size \in {<<int(3), int(2)>>, <<int(100), int(15)>>}}

areaLists ==
    {<<>>} \cup {<<a>> : a \in areaChoices}
           \cup {<<a, b>> : a \in areaChoices, b \in areaChoices}

InitFields ==
    /\ pc = "fields"
    /\ lines = <<>>
    /\ image = Unused /\ options = Unused /\ result = Unused /\ point = Unused
    /\ trips = 0
    /\ \E document \in fieldDocuments : request = document
    /\ \E areas \in areaLists : fillableAreas = areas
    /\ images = <<>> /\ targetRegions = <<>> /\ scannedAreas = <<>>
    /\ fieldIndex = 1 /\ targetedLinesCount = 0
    /\ supplementalLinesCount = 0 /\ regionIndex = 1 /\ pageIndex = 0
    /\ filteredLines = <<>> /\ response = Unused
    /\ suspended = Unused

CreateFormFields ==
    /\ pc = "fields"
    /\ result' = createFormFieldsOCR(request, fillableAreas)
    /\ pc' = "created"
    /\ UNCHANGED <<suspended, lines, image, options, point, trips, handlerVars>>

SpecFields == InitFields /\ [][CreateFormFields]_vars

(***************************************************************************)
(* The text-layer variants: part_001 (extractUnderscoresFromElements and   *)
(* the classifiers declared in that file) and part_002 (the handler of the *)
(* text-coordinate method).                                                *)
(***************************************************************************)
minUnderscores == 3
contextChars == 50

\* String.prototype.trim
RECURSIVE trim(_)
trim(text) ==
    IF text = <<>> THEN text
    ELSE IF isSpace(Head(text)) THEN trim(Tail(text))
    ELSE IF isSpace(text[Len(text)]) THEN trim(SubSeq(text, 1, Len(text) - 1))
    ELSE text

\* text.substring(from, to), with 0-based bounds
substring(text, from, to) == SubSeq(text, from + 1, to)

\* getContext of part_001: an object, not a string
getContext(text, startIndex, endIndex) ==
    LET beforeStart == Max(0, startIndex - contextChars)
        afterEnd == Min(Len(text), endIndex + contextChars)
    IN  [isString |-> FALSE,
         before |-> trim(substring(text, beforeStart, startIndex)),
         after |-> trim(substring(text, endIndex + 1, afterEnd))]

\* a string handed to a function
str(text) == [isString |-> TRUE, chars |-> text]

\* part_001 declares guessFieldType twice; the later declaration (one parameter,
\* no date rule) is the one every call of the file reaches.  toLowerCase of a
\* value that is not a string throws a TypeError.
guessFieldTypeLast(value) ==
    IF ~value.isString THEN "TypeError"
    ELSE IF includes(value.chars, <<"s", "i", "g", "n">>)
            \/ includes(value.chars, <<"s", "i", "g", "n", "a", "t", "u", "r", "e">>)
         THEN "signature"
         ELSE IF \/ includes(value.chars, <<"$">>)
                 \/ includes(value.chars, <<"a", "m", "o", "u", "n", "t">>)
                 \/ includes(value.chars, <<"s", "u", "m">>)
                 \/ includes(value.chars, <<"p", "r", "i", "c", "e">>)
              THEN "currency"
              ELSE "text"

\* last position of the run of underscores and spaces that starts at i
RECURSIVE looseRunEnd(_, _)
looseRunEnd(text, i) ==
    IF i < Len(text) /\ text[i + 1] \in {"_", " "} THEN looseRunEnd(text, i + 1) ELSE i

\* findUnderscoreSegments of part_001: a run starts at an underscore, goes on
\* over underscores and spaces, and counts its underscores only
RECURSIVE findUnderscoreSegmentsFrom(_, _, _)
findUnderscoreSegmentsFrom(text, minLength, i) ==
    IF i > Len(text) THEN <<>>
    ELSE IF text[i] = "_"
         THEN LET j == looseRunEnd(text, i)
                  count == Cardinality({k \in i..j : text[k] = "_"})
              IN  (IF count >= minLength
                   THEN <<[startIndex |-> i - 1, endIndex |-> j - 1, length |-> count]>>
                   ELSE <<>>) \o findUnderscoreSegmentsFrom(text, minLength, j + 1)
         ELSE findUnderscoreSegmentsFrom(text, minLength, i + 1)

\* findAllUnderscores of part_002: /_{2,}/g
findAllUnderscores(text) ==
    LET found == runsFrom(text, "_", 2, 1)
    IN  [k \in 1..Len(found) |->
            [startIndex |-> found[k].start, endIndex |-> found[k].end - 1,
             length |-> found[k].length]]

\* the rectangle estimated for a segment of an element
estimate(element, segment) ==
    LET bounds == element.Bounds
        charWidth == Q(bounds[3] - bounds[1], Len(element.Text))
    IN  [x |-> add(int(bounds[1]), mul(int(segment.startIndex), charWidth)),
         width |-> mul(int(segment.length), charWidth)]

\* the hits one element contributes in part_001
underscoresOf(element) ==
    LET segments == findUnderscoreSegmentsFrom(element.Text, minUnderscores, 1)
    IN  [k \in 1..Len(segments) |->
            estimate(element, segments[k]) @@
            [page |-> element.Page, y |-> element.Bounds[2],
             height |-> element.Bounds[4] - element.Bounds[2],
             fieldType |-> guessFieldTypeLast(
                 getContext(element.Text, segments[k].startIndex, segments[k].endIndex)),
             segment |-> segments[k]]]

RECURSIVE allUnderscores(_)
allUnderscores(elements) ==
    IF elements = <<>> THEN <<>>
    ELSE (IF Head(elements).Text = <<>> \/ Head(elements).Bounds = <<>>
          THEN <<>>
          ELSE underscoresOf(Head(elements)))
         \o allUnderscores(Tail(elements))

\* extractUnderscoresFromElements of part_001: it throws when a classification throws
extractUnderscoresFromElements(elements) ==
    LET hits == allUnderscores(elements)
        threw == \E k \in 1..Len(hits) : hits[k].fieldType = "TypeError"
    IN  [threw |-> threw, underscores |-> IF threw THEN <<>> ELSE hits]

\* the areas one element contributes in the handler of part_002; pages[page] of a
\* page the document does not have is undefined, and getHeight on it throws
textAreasOf(element, pageHeights) ==
    LET segments == findAllUnderscores(element.Text)
    IN  IF segments = <<>> THEN [threw |-> FALSE, areas |-> <<>>]
        ELSE IF element.Page + 1 \notin DOMAIN pageHeights
             THEN [threw |-> TRUE, areas |-> <<>>]
             ELSE [threw |-> FALSE,
                   areas |-> [k \in 1..Len(segments) |->
                       estimate(element, segments[k]) @@
                       [page |-> element.Page,
                        y |-> pageHeights[element.Page + 1] - element.Bounds[4] - 2,
                        field_type |-> guessFieldType(element.Text),
                        segment |-> segments[k]]]]

RECURSIVE textCoordinate(_, _)
textCoordinate(elements, pageHeights) ==
    IF elements = <<>> THEN [threw |-> FALSE, areas |-> <<>>]
    ELSE LET first == IF Head(elements).Text = <<>> \/ Head(elements).Bounds = <<>>
                      THEN [threw |-> FALSE, areas |-> <<>>]
                      ELSE textAreasOf(Head(elements), pageHeights)
             rest == textCoordinate(Tail(elements), pageHeights)
         IN  IF first.threw THEN first
             ELSE [threw |-> rest.threw, areas |-> first.areas \o rest.areas]

(***************************************************************************)
(* Text inputs: one element whose text is made of at most two tokens, with *)
(* or without bounds, on page 0 or on a page the document does not have.   *)
(***************************************************************************)
tokens ==
    {<<"S", "i", "g", "n", " ", "h", "e", "r", "e">>,
     <<"S", "i", "g", "n", "a", "t", "u", "r", "e", ":", " ">>,
     <<"$">>,
     <<"a", "m", "o", "u", "n", "t">>,
     <<"s", "u", "m">>,
     <<"P", "r", "i", "c", "e">>,
     <<"D", "a", "t", "e">>,
     <<"N", "a", "m", "e", ":", " ">>,
     <<"T", "o", "t", "a", "l">>,
     <<"a", "t", ":">>,
     <<"_", "_", "_">>,
     <<"_", "_", "_", "_", "_", "_">>,
     <<"_", " ", "_", " ", "_">>,
     <<"_", "_">>,
     <<" ", " ", " ", " ", " ", " ", " ", " ">>,
     <<" ", " ", " ">>}
texts == {<<>>} \cup tokens \cup {a \o b : a \in tokens, b \in tokens}

textBounds == <<100, 700, 300, 715>>
textPages == <<[width |-> 600, height |-> 800]>>

InitText ==
    /\ pc = "text"
    /\ lines = <<>>
    /\ image = Unused /\ options = Unused /\ result = Unused /\ point = Unused /\ trips = 0
    /\ \E text \in texts, bounds \in {textBounds, <<>>}, page \in {0, 1} :
          request = [pdf_url |-> TRUE, document |-> textPages,
                     extract_elements |-> <<[Text |-> text, Bounds |-> bounds, Page |-> page]>>]
    /\ images = <<>> /\ targetRegions = <<>> /\ scannedAreas = <<>>
    /\ fillableAreas = <<>> /\ fieldIndex = 1 /\ targetedLinesCount = 0
    /\ supplementalLinesCount = 0 /\ regionIndex = 1 /\ pageIndex = 0
    /\ filteredLines = <<>> /\ response = Unused
    /\ suspended = Unused

theElement == request.extract_elements[1]

\* guessFieldType of index.js and part_002
Classify ==
    /\ pc = "text"
    /\ result' = [fieldType |-> guessFieldType(theElement.Text)]
    /\ pc' = "classified"
    /\ UNCHANGED <<suspended, image, options, lines, point, trips, handlerVars>>

\* guessFieldType as part_001 calls it on the text found near a rule
ClassifyNearby ==
    /\ pc = "text"
    /\ result' = [fieldType |-> guessFieldTypeLast(str(theElement.Text))]
    /\ pc' = "classifiedNearby"
    /\ UNCHANGED <<suspended, image, options, lines, point, trips, handlerVars>>

ExtractUnderscores ==
    /\ pc = "text"
    /\ result' = extractUnderscoresFromElements(request.extract_elements)
    /\ pc' = "extracted"
    /\ UNCHANGED <<suspended, image, options, lines, point, trips, handlerVars>>

TextCoordinate ==
    /\ pc = "text"
    /\ result' = textCoordinate(request.extract_elements,
                                [p \in DOMAIN request.document |-> request.document[p].height])
    /\ pc' = "textCoordinates"
    /\ UNCHANGED <<suspended, image, options, lines, point, trips, handlerVars>>

AnalyzeText ==
    /\ pc = "text"
    /\ result' = [regions |-> analyzeTextElements(request.extract_elements)]
    /\ pc' = "analyzed"
    /\ UNCHANGED <<suspended, image, options, lines, point, trips, handlerVars>>

NextText == Classify \/ ClassifyNearby \/ ExtractUnderscores \/ TextCoordinate \/ AnalyzeText

SpecText == InitText /\ [][NextText]_vars

(***************************************************************************)
(* Properties of the raster scan                                           *)
(***************************************************************************)
scanned == pc = "scanned"
maxGapOf == variantOf(options.variant).maxGap
oneRule == image.gap = 0
twoRuns == image.gap > 0
thinA == image.tA <= options.maxThickness
thinB == image.tB <= options.maxThickness
\* the segments emitted for the top row of the runs
RowSegments == SelectSeq(lines, LAMBDA s : s.y = image.y)
\* first ink column of run B
startB == image.lead + image.lenA + image.gap

\* C1: a buffer holding exactly one rule of length L >= minLength and thickness
\* T <= maxThickness, wherever it starts and ends in the row, yields exactly one
\* segment, of length L and thickness T.
C1_OneRuleOneSegment ==
    (scanned /\ oneRule /\ image.lenA >= options.minLength /\ thinA)
        => /\ Len(lines) = 1
           /\ lines[1].length = image.lenA
           /\ lines[1].thickness = image.tA

C7_NarrowGapOneSegment ==
    (scanned /\ twoRuns /\ image.gap <= maxGapOf /\ thinA /\ thinB
        /\ image.lenA + image.gap + image.lenB >= options.minLength)
        => /\ Len(RowSegments) = 1
           /\ RowSegments[1].startX = image.lead
           /\ RowSegments[1].length = image.lenA + image.gap + image.lenB

\* C8: a rule of thickness T <= maxThickness is reported once: no further segment
\* is emitted for its rows y+1 .. y+T-1, also when the run is still open at the
\* last column of the row.
C8_ThickRuleReportedOnce ==
    (scanned /\ oneRule /\ image.lenA >= options.minLength /\ thinA)
        => Cardinality({i \in 1..Len(lines) :
                          lines[i].y >= image.y /\ lines[i].y < image.y + image.tA}) = 1

(***************************************************************************)
(* Properties of the coordinate mapper                                     *)
(***************************************************************************)
\* C5: converting a point from pixel to document coordinates and back, or from
\* document to pixel coordinates and back, returns the original point, however
\* many times it is repeated, and the conversion to document coordinates is
\* (px * pageW / imgW, pageH - py * pageH / imgH).
C5_RoundTrip ==
    pc = "mapper" =>
        /\ point.space = options.origin.space
              => point.x = options.origin.x /\ point.y = options.origin.y
        /\ (point.space = "pdf" /\ options.origin.space = "pixel")
              => /\ point.x = Q(options.origin.x.n * image.pdfPageWidth.n,
                                image.imageWidth.n)
                 /\ point.y = Q(image.pdfPageHeight.n * image.imageHeight.n
                                  - options.origin.y.n * image.pdfPageHeight.n,
                                image.imageHeight.n)

C5_Witness ==
    /\ pc = "mapper" /\ trips = MaxTrips
    /\ point.space = options.origin.space
    /\ image.imageWidth # image.pdfPageWidth /\ image.imageHeight # image.pdfPageHeight
    /\ options.origin.y.n > 0 /\ options.origin.x.n > 0
    /\ point = options.origin

(***************************************************************************)
(* Properties of the segment filters                                       *)
(***************************************************************************)
filtered == pc = "filtered"
minYDistanceOf ==
    IF options.variant = "intelligent" THEN minYDistanceIntelligent ELSE minYDistanceBalanced
densityThresholdOf ==
    IF options.variant = "intelligent" THEN logoDensity ELSE denseThreshold
ysOf(ls) == [i \in 1..Len(ls) |-> ls[i].y]

\* C9: any two segments of the list the filter returns differ in y by more than
\* minYDistance, of each cluster of near rows the deduplicator keeps the first in
\* ascending y, and segments at y = 100 and y = 110 leave only the one at y = 100.
C9_DedupKeepsFirst ==
    filtered =>
        /\ \A i, j \in 1..Len(result.final) :
              i # j => abs(result.final[i].y - result.final[j].y) > minYDistanceOf
        /\ \A i \in 1..Len(result.afterLogo) :
              \E k \in 1..Len(result.deduplicated) :
                 /\ result.deduplicated[k].y <= result.afterLogo[i].y
                 /\ result.afterLogo[i].y - result.deduplicated[k].y <= minYDistanceOf
        /\ ysOf(result.afterLogo) = <<100, 110>> => ysOf(result.final) = <<100>>

C9_Witness ==
    /\ filtered
    /\ ysOf(result.afterLogo) = <<100, 110>>
    /\ ysOf(result.final) = <<100>>

\* the bins a band covers
coveredBins(band) == band.startBin .. (band.endBin - 1)

\* C10: a band is flagged only at a bin of the top 25% whose count exceeds the
\* density threshold, and it extends over a following bin only if that bin's
\* count exceeds half the threshold.
C10_BandOnlyOverDenseBins ==
    filtered =>
        \A b \in 1..Len(result.bands) :
           /\ result.bands[b].startBin < topBins
           /\ result.bins[result.bands[b].startBin] > densityThresholdOf
           /\ \A k \in coveredBins(result.bands[b]) :
                 (k > result.bands[b].startBin /\ k < numBins)
                    => 2 * result.bins[k] > densityThresholdOf

(***************************************************************************)
(* Properties of the /process-ocr handler                                  *)
(***************************************************************************)
\* the supplemental filter of page pageIndex has just been evaluated
pageFiltered == pc = "pageDone"
\* the handler is in its supplemental loop
inSupplemental == pc \in {"supplemental", "supplementalAwait", "pageDone"}
\* the crops recorded for page p
scannedOn(p) == SelectSeq(scannedAreas, LAMBDA a : a.page = p)
\* the span of the segment at its row meets the rectangle
spanMeets(s, a) ==
    /\ s.y >= a.y /\ s.y <= a.y + a.height
    /\ s.endX >= a.x /\ s.startX <= a.x + a.width

\* C2: no segment kept by the supplemental pass has a point of its span
\* [startX, endX] at row y inside a rectangle the targeted pass recorded as
\* scanned for the same page.
C2_KeptSegmentsOutsideScanned ==
    pageFiltered =>
        \A k \in 1..Len(filteredLines) :
            \A i \in 1..Len(scannedOn(pageIndex)) :
                ~spanMeets(filteredLines[k], scannedOn(pageIndex)[i])

\* C3: while the supplemental loop runs, every targeted region scan has returned
\* and the crop of every targeted region is in scannedAreas, in the order of the
\* scans: the supplemental filter never sees a partly built list.
C3_TargetedCompleteBeforeSupplemental ==
    inSupplemental =>
        /\ regionIndex = Len(targetedWork) + 1
        /\ Len(scannedAreas) = Len(targetedWork)
        /\ \A i \in 1..Len(targetedWork) :
              scannedAreas[i] = [page |-> targetedWork[i].page] @@ safeRegionOf(targetedWork[i])

C3_Witness ==
    /\ pageFiltered
    /\ Len(targetedWork) = 2
    /\ Len(scannedOn(pageIndex)) >= 1
    /\ Len(lines) > Len(filteredLines)

\* the single rule of page 0, when that is all the document holds
theRule == CHOOSE r \in request.document[1].raster.ink : TRUE
singleRulePage ==
    /\ Len(request.document) = 1
    /\ request.extract_elements = <<>>
    /\ Cardinality(request.document[1].raster.ink) = 1
    /\ theRule.t = 2
    /\ ~(100 * theRule.y < 12 * request.document[1].raster.height)

\* C4: for a one-page document without text elements whose raster holds a single
\* rule, 2 pixels thick and outside the exclusion margins, the answer has no
\* targeted area and exactly one supplemental area, built from a segment at the
\* rule's row with the rule's length, and the area's y is
\* pageHeight - row * (pageHeight / imageHeight).
C4_SingleRuleEndToEnd ==
    (pc = "done" /\ response.success /\ singleRulePage) =>
        /\ targetedLinesCount = 0
        /\ Len(fillableAreas) = 1
        /\ fillableAreas[1].source = "supplemental"
        /\ Len(filteredLines) = 1
        /\ filteredLines[1].y = theRule.y
        /\ filteredLines[1].length = theRule.len
        /\ fillableAreas[1].y =
              sub(int(request.document[1].height),
                  Q(theRule.y * request.document[1].height,
                    request.document[1].raster.height))

\* C11: no segment the filter returns has its y inside a band the density
\* classifier flagged for the input.
C11_NoSegmentInFlaggedBand ==
    filtered =>
        \A k \in 1..Len(result.final) :
            \A b \in 1..Len(result.bands) :
                ~inBand(result.final[k].y, result.bands[b], image.height)

\* C17: when no segment reaches the relative-length stage, the filter does not
\* throw and returns the empty list it was handed.
C17_EmptyPopulationPassesThrough ==
    (filtered /\ result.deduplicated = <<>>) =>
        /\ ~result.threw
        /\ result.final = result.deduplicated

C17_Witness ==
    /\ filtered /\ options.variant = "balanced"
    /\ result.deduplicated = <<>>
    /\ lines # <<>>
    /\ result.final = <<>>

(***************************************************************************)
(* Properties of the text layer                                            *)
(***************************************************************************)
theText == theElement.Text
fieldKinds == {"signature", "currency", "date", "text"}
hasSignatureWord == includes(theText, <<"s", "i", "g", "n">>)
hasCurrencyWord ==
    \/ includes(theText, <<"$">>)
    \/ includes(theText, <<"a", "m", "o", "u", "n", "t">>)
    \/ includes(theText, <<"s", "u", "m">>)
    \/ includes(theText, <<"p", "r", "i", "c", "e">>)
hasDateWord == includes(theText, <<"d", "a", "t", "e">>)
\* a classifier of the repository has been applied to the text
classified == pc \in {"classified", "classifiedNearby"}

\* C12: the classifier answers for every text, and answers 'signature' for a
\* signature keyword, otherwise 'currency' for '$', 'amount', 'sum' or 'price',
\* otherwise 'date' for 'date', otherwise 'text'.
C12_ClassifierRuleOrder ==
    classified =>
        /\ result.fieldType \in fieldKinds
        /\ result.fieldType =
              IF hasSignatureWord THEN "signature"
              ELSE IF hasCurrencyWord THEN "currency"
              ELSE IF hasDateWord THEN "date"
              ELSE "text"

\* the element has text and bounds and lies on a page of the document
wellFormed == theText # <<>> /\ theElement.Bounds # <<>> /\ theElement.Page = 0
\* a text-run extractor has been applied to the element
extracted == pc \in {"extracted", "textCoordinates"}
hits == IF pc = "extracted" THEN result.underscores ELSE result.areas
kindOfHit(h) == IF pc = "extracted" THEN h.fieldType ELSE h.field_type
charWidthOf == Q(theElement.Bounds[3] - theElement.Bounds[1], Len(theText))
nameText == <<"N", "a", "m", "e", ":", " ", "_", "_", "_", "_", "_", "_">>

\* C13: every hit of the text-run extractor starts at left + startIndex *
\* charWidth and is (endIndex - startIndex + 1) * charWidth wide, with charWidth
\* = element width / character count; "Name: ______" gives one hit at
\* left + 6 * charWidth, 6 * charWidth wide, of kind 'text'.
C13_TextRunRectangle ==
    (extracted /\ wellFormed) =>
        /\ ~result.threw
        /\ \A k \in 1..Len(hits) :
              /\ hits[k].x = add(int(theElement.Bounds[1]),
                                 mul(int(hits[k].segment.startIndex), charWidthOf))
              /\ hits[k].width =
                    mul(int(hits[k].segment.endIndex - hits[k].segment.startIndex + 1),
                        charWidthOf)
        /\ theText = nameText =>
              /\ Len(hits) = 1
              /\ hits[1].x = add(int(theElement.Bounds[1]), mul(int(6), charWidthOf))
              /\ hits[1].width = mul(int(6), charWidthOf)
              /\ kindOfHit(hits[1]) = "text"

\* C14: analyzeTextElements yields a region for an element exactly when the
\* element has text and bounds and the text holds a run of 3 or more underscores
\* with spaces allowed inside the run, 8 or more consecutive spaces, or a filler
\* phrase.
C14_RegionExactlyForCues ==
    (pc = "analyzed") =>
        ((result.regions # <<>>) <=>
            /\ theText # <<>> /\ theElement.Bounds # <<>>
            /\ \/ findUnderscoreSegmentsFrom(theText, minUnderscores, 1) # <<>>
               \/ runsFrom(theText, " ", 8, 1) # <<>>
               \/ hasFillingPattern(theText))

\* C16: an element with text and bounds whose page the document does not have is
\* skipped by the text-coordinate handler: nothing is thrown and it gives no area.
C16_MissingPageSkipped ==
    (pc = "textCoordinates" /\ theText # <<>> /\ theElement.Bounds # <<>>
        /\ theElement.Page + 1 \notin DOMAIN request.document) =>
        /\ ~result.threw
        /\ result.areas = <<>>

(***************************************************************************)
(* Properties of the /process-ocr handler: failures                        *)
(***************************************************************************)
\* the targeted regions whose crop the extraction rejects
badCropRegions ==
    {i \in 1..Len(targetedWork) :
        cropRejected(targetedWork[i].page, safeRegionOf(targetedWork[i]))}

\* C15: once the scan of a region whose crop is empty or outside the image has
\* been called, the handler goes on with an empty segment list for that region:
\* the request does not end there.
C15_BadCropYieldsNoSegments ==
    (images # <<>> /\ regionIndex \in badCropRegions /\ Len(scannedAreas) = regionIndex) =>
        /\ pc = "targetedAwait"
        /\ lines = <<>>

\* the request has been answered
responded == pc = "done"
\* no step of the handler threw: both loops ran to their end
ranToEnd == regionIndex = Len(targetedWork) + 1 /\ pageIndex = Len(images)

\* C19: a request is answered once, at the end of the handler; the answer is a
\* success only when no step threw, and a failure carries neither fields nor a
\* PDF, whatever areas were found before the failure.
C19_OneResponseNoPartialResults ==
    /\ [](~responded => response = Unused)
    /\ [](responded =>
            IF response.success
            THEN request.pdf_url /\ ranToEnd
            ELSE DOMAIN response = {"status", "success"})
    /\ [][~responded]_vars

C19_Witness ==
    /\ responded
    /\ ~response.success
    /\ fillableAreas # <<>>

\* the fields of the response that carry the tag
tagged(source) ==
    {k \in 1..Len(response.fields) : response.fields[k].source = source}

\* C20: in a success response every field is tagged 'targeted' or
\* 'supplemental', targeted_lines and supplemental_lines are the numbers of
\* fields with these tags, and they add up to the number of fields.
C20_CountersMatchTags ==
    (responded /\ response.success) =>
        /\ \A k \in 1..Len(response.fields) :
              response.fields[k].source \in {"targeted", "supplemental"}
        /\ response.targeted_lines = Cardinality(tagged("targeted"))
        /\ response.supplemental_lines = Cardinality(tagged("supplemental"))
        /\ response.targeted_lines + response.supplemental_lines = Len(response.fields)

C20_Witness ==
    /\ responded /\ response.success
    /\ Cardinality(tagged("targeted")) >= 1
    /\ Cardinality(tagged("supplemental")) >= 1

(***************************************************************************)
(* Properties of two interleaved requests                                  *)
(***************************************************************************)
\* what the request of the running handler gives when it runs alone and nothing
\* throws: the areas of the targeted regions in order, then those of the pages
RECURSIVE aloneTargeted(_, _)
aloneTargeted(i, firstId) ==
    IF i > Len(targetedWork) THEN <<>>
    ELSE LET region == targetedWork[i]
             found == scanCrop(region.page, safeRegionOf(region), targetedMinLength)
         IN  targetedAreas(region, safeRegionOf(region), found, firstId)
             \o aloneTargeted(i + 1, firstId + Len(found))

aloneScanned ==
    [i \in 1..Len(targetedWork) |->
        [page |-> targetedWork[i].page] @@ safeRegionOf(targetedWork[i])]

RECURSIVE aloneSupplemental(_, _)
aloneSupplemental(p, firstId) ==
    IF p >= Len(images) THEN <<>>
    ELSE LET whole == [x |-> 0, y |-> 0, width |-> images[p + 1].width,
                       height |-> images[p + 1].height]
             kept == supplementalFilter(scanCrop(p, whole, supplementalMinLength),
                                        p, aloneScanned)
         IN  supplementalAreas(p, kept, firstId)
             \o aloneSupplemental(p + 1, firstId + Len(kept))

aloneAreas ==
    LET targeted == aloneTargeted(1, 1)
    IN  targeted \o aloneSupplemental(0, Len(targeted) + 1)

\* C18: a request answered with success while another request is in the process
\* has the areas, ids, names, scanned rectangles and counters it has when it
\* runs alone.
C18_InterleavedAsAlone ==
    (responded /\ response.success) =>
        /\ fillableAreas = aloneAreas
        /\ scannedAreas = aloneScanned
        /\ fieldIndex = Len(aloneAreas) + 1
        /\ response.fields =
              [k \in 1..Len(aloneAreas) |->
                  [id |-> aloneAreas[k].id, name |-> aloneAreas[k].field_name,
                   type |-> aloneAreas[k].field_type, page |-> aloneAreas[k].page,
                   source |-> aloneAreas[k].source]]
        /\ response.targeted_lines =
              Cardinality({k \in 1..Len(aloneAreas) : aloneAreas[k].source = "targeted"})
        /\ response.supplemental_lines =
              Cardinality({k \in 1..Len(aloneAreas) : aloneAreas[k].source = "supplemental"})

C18_Witness ==
    /\ responded /\ response.success
    /\ Len(response.fields) >= 2
    /\ suspended.pc = "targetedAwait"
    /\ suspended.fillableAreas # <<>>

(***************************************************************************)
(* Properties of the segments and of the crops                             *)
(***************************************************************************)
\* the crop whose segments the handler is about to convert
theCrop == safeRegionOf(targetedWork[regionIndex])

\* a segment as the claim describes it, for a scanned buffer of the given size
wellFormed21(line, minLength, maxThickness, width, height) ==
    /\ line.endX - line.startX = line.length
    /\ line.length >= minLength
    /\ 1 <= line.thickness /\ line.thickness <= maxThickness
    /\ 0 <= line.startX /\ line.endX <= width
    /\ 0 <= line.y /\ line.y < height

\* C21: every segment the scanner emits for a crop has endX - startX = length
\* >= minLength, 1 <= thickness <= maxThickness, and lies inside the scanned
\* buffer: 0 <= startX, endX <= width, 0 <= y < height.
C21_SegmentInsideBuffer ==
    pc = "targetedAwait" =>
        \A k \in 1..Len(lines) :
            wellFormed21(lines[k], targetedMinLength, defaultMaxThickness,
                         theCrop.width, theCrop.height)

\* the region whose segments the handler converted last, its crop and its page
lastRegion == targetedWork[regionIndex - 1]
lastCrop == safeRegionOf(lastRegion)
lastPage == request.document[lastRegion.page + 1]
lastRule == CHOOSE r \in lastPage.raster.ink : TRUE

\* the areas the handler appended for the segments of the last region
lastAreas ==
    [k \in 1..Len(lines) |-> fillableAreas[Len(fillableAreas) - Len(lines) + k]]

converted ==
    /\ pc = "targeted" /\ regionIndex > 1
    /\ Cardinality(lastPage.raster.ink) = 1

\* C23: a rule that starts at page pixel (X, Y) and is found through a crop with
\* origin (cx, cy) gives an area whose position is the conversion of (X, Y), the
\* crop origin being added exactly once: x = X * pageWidth / imageWidth and
\* y = pageHeight - Y' * pageHeight / imageHeight - 2 for a row Y' of the rule,
\* where X is the first column of the rule inside the crop.
C23_CropOriginAddedOnce ==
    converted =>
        \A k \in 1..Len(lines) :
            /\ lastAreas[k].x =
                  Q(Max(lastRule.x, lastCrop.x) * lastPage.width, lastPage.raster.width)
            /\ \E row \in lastRule.y..(lastRule.y + lastRule.t - 1) :
                  lastAreas[k].y =
                      sub(sub(int(lastPage.height),
                              Q(row * lastPage.height, lastPage.raster.height)), int(2))

\* C27: the targeted pass reports a rule at most once: no two "targeted" areas
\* of a request lie on the same page with the same start position, also when an
\* element matches several detectors or the crops of two elements overlap.
C27_TargetedRuleReportedOnce ==
    \A i, j \in 1..Len(fillableAreas) :
        (/\ i < j
         /\ fillableAreas[i].source = "targeted"
         /\ fillableAreas[j].source = "targeted"
         /\ fillableAreas[i].page = fillableAreas[j].page)
        => ~(/\ fillableAreas[i].x = fillableAreas[j].x
             /\ fillableAreas[i].y = fillableAreas[j].y)

\* C28: in the output order the field ids are 1..n without gap or repeat, the
\* targeted areas come first and the supplemental areas follow by ascending
\* page, and the field names are pairwise distinct; the response lists the
\* fields with these ids and names.
C28_IdsAndNamesUnique ==
    /\ pc \in {"targeted", "targetedAwait", "supplemental", "supplementalAwait",
               "pageDone", "create"} =>
          /\ \A k \in 1..Len(fillableAreas) : fillableAreas[k].id = k
          /\ \A i, j \in 1..Len(fillableAreas) :
                i < j =>
                   /\ fillableAreas[i].field_name # fillableAreas[j].field_name
                   /\ fillableAreas[i].source = "supplemental" =>
                         /\ fillableAreas[j].source = "supplemental"
                         /\ fillableAreas[i].page <= fillableAreas[j].page
    /\ (responded /\ response.success) =>
          /\ \A k \in 1..Len(response.fields) : response.fields[k].id = k
          /\ \A i, j \in 1..Len(response.fields) :
                i < j => response.fields[i].name # response.fields[j].name

C28_Witness ==
    /\ responded /\ response.success
    /\ Len(response.fields) >= 3
    /\ \E i, j \in 1..Len(response.fields) :
          /\ response.fields[i].source = "targeted"
          /\ response.fields[j].source = "supplemental"
          /\ response.fields[j].page = 1

(***************************************************************************)
(* Properties of thick and of staggered rules                              *)
(***************************************************************************)
\* C25: a solid rectangle of width >= minLength and height H > maxThickness is
\* not a rule: the scanner emits no segment at any of its rows.
C25_ThickBlockNoSegment ==
    (scanned /\ oneRule /\ image.lenA >= options.minLength
             /\ image.tA > options.maxThickness) =>
        \A k \in 1..Len(lines) :
            ~(image.y <= lines[k].y /\ lines[k].y < image.y + image.tA)

\* the scanner reports the rule: a segment that starts at the rule's first
\* column on one of the rule's rows
reported(rule) ==
    \E k \in 1..Len(lines) :
        /\ lines[k].startX = rule.x
        /\ rule.y <= lines[k].y /\ lines[k].y < rule.y + rule.t

\* C26: two rules of length >= minLength and thickness <= maxThickness whose
\* column ranges are more than maxGap apart, on the same, adjacent or
\* overlapping rows, each get a segment; the rows consumed by one rule do not
\* hide the other.
C26_SeparateRulesBothReported ==
    scanned => (reported(image.ruleA) /\ reported(image.ruleB))

(***************************************************************************)
(* Properties of the thickness estimator                                   *)
(***************************************************************************)
\* the row dy beneath the run has ink in more than 0.7 of the up-to-10 evenly
\* spaced columns of the run
inkRow(dy) ==
    LET n == Min(10, point.length)
        black == {i \in 0..(n - 1) :
                     isBlack(image, point.startX + ((point.length * i) \div n),
                             point.startY + dy)}
    IN  10 * Cardinality(black) > 7 * n

\* the rows beneath the run that are examined at most: the loop runs for
\* dy = 1..9 and stops at the bottom edge
rowsBeneath == Min(thicknessRows - 1, image.height - 1 - point.startY)

\* the number of consecutive rows directly beneath the run that are ink rows
consecutiveInkRows ==
    CHOOSE n \in 0..rowsBeneath :
        /\ \A dy \in 1..n : inkRow(dy)
        /\ (n < rowsBeneath => ~inkRow(n + 1))

\* C22: the estimator returns 1 + the number of consecutive rows directly
\* beneath the run in which more than 0.7 of the up-to-10 evenly spaced sampled
\* columns are ink, stopping at the first row that fails, at the bottom edge or
\* at the cap of examined rows; the value is >= 1 and every pixel read lies
\* inside the buffer.
C22_ThicknessIsInkRowCount ==
    pc = "measured" =>
        /\ result.thickness = 1 + consecutiveInkRows
        /\ result.thickness >= 1
        /\ \A px \in result.reads :
              /\ 0 <= px.x /\ px.x < image.width
              /\ 0 <= px.y /\ px.y < image.height

(***************************************************************************)
(* Properties of the crop                                                  *)
(***************************************************************************)
cropImage == images[point.page + 1]
cropDocument == request.document[point.page + 1]

\* the document bounds of the region meet the page
boundsMeetPage ==
    /\ point.bounds[1] <= cropDocument.width /\ point.bounds[3] >= 0
    /\ point.bounds[2] <= cropDocument.height /\ point.bounds[4] >= 0

\* the pixel box of the bounds without padding, clipped to the image
clippedBox ==
    [x1 |-> Max(0, floorDiv(point.bounds[1] * cropImage.width, cropDocument.width)),
     y1 |-> Max(0, floorDiv((cropDocument.height - point.bounds[4]) * cropImage.height,
                            cropDocument.height)),
     x2 |-> Min(cropImage.width,
                ceilDiv(point.bounds[3] * cropImage.width, cropDocument.width)),
     y2 |-> Min(cropImage.height,
                ceilDiv((cropDocument.height - point.bounds[2]) * cropImage.height,
                        cropDocument.height))]

\* C24: for a region whose document bounds meet the page the padded crop has
\* 0 <= x, 0 <= y, width > 0, height > 0, x + width <= image.width and
\* y + height <= image.height, and it contains the unpadded pixel box of the
\* region clipped to the image.
C24_CropInsideImage ==
    (pc = "cropped" /\ boundsMeetPage) =>
        /\ 0 <= result.x /\ 0 <= result.y
        /\ result.width > 0 /\ result.height > 0
        /\ result.x + result.width <= cropImage.width
        /\ result.y + result.height <= cropImage.height
        /\ result.x <= clippedBox.x1 /\ clippedBox.x2 <= result.x + result.width
        /\ result.y <= clippedBox.y1 /\ clippedBox.y2 <= result.y + result.height

\* a region that reaches over the left and the bottom edge of the page
C24_Witness ==
    /\ pc = "cropped" /\ boundsMeetPage
    /\ point.bounds[1] < 0 /\ point.bounds[2] < 0
    /\ result.x = 0 /\ result.y + result.height = cropImage.height
    /\ result.width < cropImage.width

(***************************************************************************)
(* Properties of the form-field creation                                   *)
(***************************************************************************)
hasPage(k) == fillableAreas[k].page + 1 \in 1..Len(request.pages)

\* area k cannot become a field: its page is missing, or its name is taken by a
\* field of the document or by an earlier area that reached createTextField
failed(k) ==
    \/ ~hasPage(k)
    \/ fillableAreas[k].field_name \in request.fields
    \/ \E j \in 1..(k - 1) :
          hasPage(j) /\ fillableAreas[j].field_name = fillableAreas[k].field_name

failedAreas == SelectSeq([k \in 1..Len(fillableAreas) |-> k], failed)
createdAreas == SelectSeq([k \in 1..Len(fillableAreas) |-> k], LAMBDA k : ~failed(k))

\* C29: every area is handled: each failed area, and only it, has one entry in
\* the error list, each other area becomes a field also when an area before it
\* failed, and created_fields + errors = detected_areas = number of areas.
C29_EveryAreaCounted ==
    pc = "created" =>
        /\ result.statistics.detected_areas = Len(fillableAreas)
        /\ result.statistics.created_fields + result.statistics.errors
              = result.statistics.detected_areas
        /\ result.statistics.errors = Len(result.errors)
        /\ Len(result.errors) = Len(failedAreas)
        /\ \A i \in 1..Len(failedAreas) :
              result.errors[i].field_name = fillableAreas[failedAreas[i]].field_name
        /\ Len(result.widgets) = Len(createdAreas)
        /\ \A i \in 1..Len(createdAreas) :
              result.widgets[i].field_name = fillableAreas[createdAreas[i]].field_name

\* the first area fails and the second becomes a field
C29_Witness ==
    /\ pc = "created"
    /\ Len(fillableAreas) = 2
    /\ failed(1) /\ ~failed(2)
    /\ result.statistics.created_fields = 1
    /\ result.statistics.errors = 1

\* C30: on a page at least 10 wide and 5 high the rectangle handed to the
\* writer lies inside the page, whatever the coordinates of the area:
\* 0 <= x, x + width <= pageWidth, 0 <= y, y + height <= pageHeight,
\* width >= 10 and height >= 5.
C30_WidgetInsidePage ==
    pc = "created" =>
        \A i \in 1..Len(result.widgets) :
            LET w == result.widgets[i]
                page == request.pages[w.page + 1]
            IN  (page.width >= 10 /\ page.height >= 5) =>
                   /\ ~less(w.x, int(0)) /\ ~less(w.y, int(0))
                   /\ ~less(int(page.width), add(w.x, w.width))
                   /\ ~less(int(page.height), add(w.y, w.height))
                   /\ ~less(w.width, int(10)) /\ ~less(w.height, int(5))

\* an area right of and above the page, larger than the page, became a field
C30_Witness ==
    /\ pc = "created"
    /\ request.pages[1].width = 40
    /\ Len(result.widgets) >= 1
    /\ \E k \in 1..Len(fillableAreas) :
          /\ ~failed(k)
          /\ fillableAreas[k].x = int(100) /\ fillableAreas[k].y = int(50)
          /\ fillableAreas[k].width = int(100)

====
